---- MODULE Spec2Model ----
(***************************************************************************)
(* Output/delivery subsystem of orbs-network/scribe (package log):         *)
(*   - truncatingFileWriter  (time-windowed truncating file sink)          *)
(*   - bulkOutput            (batching sink with asynchronous flush)       *)
(* Each component has its own specification over its own variables; the    *)
(* variables of the other components stay at their initial value.          *)
(***************************************************************************)
EXTENDS Integers, Sequences, FiniteSets, TLC

(***************************************************************************)
(* Bounds of the model.                                                    *)
(***************************************************************************)
\* the clock runs from 0 (creation time) to MaxTime
MaxTime == 3
\* calls (Write or Truncate) started on the truncating writer
MaxCalls == 3
\* the largest interval passed to NewTruncatingFileWriter
MaxInterval == 2

\* the hard ceiling of NewBulkOutput on bulkSize
Ceiling == 1000

\* Append calls started on the bulk sink
MaxAppends == 3
\* the largest bulkSize passed to NewBulkOutput
MaxBulkSize == 2

\* the concurrent callers of the truncating writer: two in SpecTFW, a third
\* one in SpecTFW3
Writers == {1, 2}
AllWriters == {1, 2, 3}

\* the byte strings passed to Write: two payloads of different lengths
Payloads == {<<1>>, <<2, 3>>}

\* the variadic `intervals` argument of NewTruncatingFileWriter
CtorArgs == {<<>>} \cup {<<i>> : i \in 0 .. MaxInterval}

\* the largest number of sinks of a logger
MaxSinks == 2

\* Append calls started on the stream sink
MaxBasicAppends == 3

\* calls (Append, AllowErrorsMatching, HasErrors, TestTerminated) started on
\* the test-harness sink
MaxTOCalls == 4

\* the concurrent callers of the bulk sink's Append
Appenders == {1, 2}

\* the concurrent callers of the test-harness sink
TOCallers == {1, 2}

\* A text is the set of words it contains. The records passed to
\* TestOutput.Append: level, message, and the text of the field with key
\* "error" (no words when there is none).
Records ==
    { [level |-> "info",  msg |-> {"foo"}, errf |-> {}],
      [level |-> "error", msg |-> {"foo"}, errf |-> {}],
      [level |-> "error", msg |-> {"bar"}, errf |-> {}],
      [level |-> "error", msg |-> {"bar"}, errf |-> {"foo"}] }

\* the patterns passed to AllowErrorsMatching: a word, and a string that is
\* not a regular expression
PatternArgs == {"foo", "("}

\* The k-th Append call logs message k. A filter is the set of messages it
\* denies; these are the chains passed to SetFilters.
FilterChains == {<< >>, << {2}, {3} >>}

VARIABLES
    \* ---- truncatingFileWriter ----
    intervals,      \* the constructor's variadic argument
    interval,       \* w.interval
    lastTruncated,  \* w.lastTruncated
    mu,             \* w.mu: 0 when free, else the writer holding Lock()
    fData,          \* content of the file behind w.f
    fOff,           \* offset of the handle w.f
    clock,          \* time.Now()
    wr,             \* per caller: position in Write/Truncate and its locals
    calls,          \* calls started so far
    \* history of a single caller's calls (SpecTFWSeq), read by the
    \* properties only
    prior,          \* content of the file when the current call started
    lastCall,       \* the last call that returned
    lastWriteAt,    \* `now` of the last Write that returned, -1 if none
    wlog,           \* every payload written so far, in order of f.Write
    manualUsed,     \* some manual Truncate() has been called
    lastAuto,       \* `now` of the last automatic truncation whose f.Truncate
                    \* succeeded; the creation time if there was none
    lastRet,        \* what the last Write returned (n, err), and the error of
                    \* its automatic truncation
    recording,      \* whether this history is recorded
    \* ---- bulkOutput ----
    requested,      \* the bulkSize argument of NewBulkOutput
    sink,           \* "none" before NewBulkOutput, then "created" or "panicked"
    bulkSize,       \* out.bulkSize
    logs,           \* out.logs: the pending rows
    lock,           \* out.lock: 0 when free, else the appender holding it
    filters,        \* out.filters
    ap,             \* per caller: position in Append/flushIfNeeded, its row
    nextMsg,        \* Append calls started so far
    tasks,          \* the goroutines started by flushIfNeeded, in order
    onErrorCalls,   \* calls of onError, counted per Append call that passed it
    \* history, read by the properties only
    appended,       \* every row appended to out.logs, in order
    dropped,        \* messages of the Append calls the filters denied
    \* ---- TestOutput ----
    toOwner,        \* o.RWMutex: 0, or the caller holding Lock()
    toReaders,      \* o.RWMutex: the callers holding RLock()
    loggingDisabled,      \* o.loggingDisabled # 0
    allowedErrorPatterns, \* o.allowedErrorPatterns
    hasErrors,      \* o.hasErrors
    testTerminated, \* o.testTerminated
    tbCalls,        \* the calls made on o.tb, in order
    printed,        \* the lines printed with fmt.Println, in order
    tc,             \* per caller: position in its call and its locals
    toRet,          \* per caller: how its last call ended
    toCalls,        \* calls started so far
    \* history, read by the properties only
    toPre,          \* the sink when the holder of Lock() acquired it
    \* ---- basicLogger ----
    lgOutputs,      \* len(b.outputs); the sinks are numbered from 1
    lgTags,         \* b.tags
    lgParams,       \* the fields passed to Log(level, message, params...)
    lgBehaviour,    \* what each sink's Append does, per nesting of the call
    lgFilters,      \* b.filters
    lgStack,        \* the frames of b.log on the caller's stack, innermost last
    lgRet,          \* how the last Log call ended
    \* history of the current Log call, read by the properties only
    lgAppends,      \* the Append invocations, in order
    lgOnErrors,     \* the onError invocations, in order
    \* ---- basicOutput ----
    boFilters,      \* out.filters
    boWrites,       \* the Write calls made on out.writer, in order
    boOnError,      \* calls of onError, counted per Append call
    bo,             \* per caller: position in Append and its record
    boNext,         \* Append calls started so far
    \* history, read by the properties only
    boDenied        \* the Append calls the filters denied

tfwVars == <<intervals, interval, lastTruncated, mu, fData, fOff, clock, wr,
             calls>>

tfwHist == <<prior, lastCall, lastWriteAt, wlog, manualUsed, lastAuto, lastRet>>

bulkVars == <<requested, sink, bulkSize, logs, lock, filters, ap, nextMsg, tasks,
              onErrorCalls, appended, dropped>>

toVars == <<toOwner, toReaders, loggingDisabled, allowedErrorPatterns,
            hasErrors, testTerminated, tbCalls, printed, tc, toRet, toCalls,
            toPre>>

lgVars == <<lgOutputs, lgTags, lgParams, lgBehaviour, lgFilters, lgStack, lgRet, lgAppends,
            lgOnErrors>>

\* the components added after the truncating writer and the bulk sink
boVars == <<boFilters, boWrites, boOnError, bo, boNext, boDenied>>

restVars == <<toVars, lgVars, boVars>>

vars == <<tfwVars, tfwHist, recording, bulkVars, restVars>>

(***************************************************************************)
(* The file behind the handle (os.File, not opened in append mode): a      *)
(* write lands at the handle's offset; bytes between the end of the file   *)
(* and the offset read as 0.                                               *)
(***************************************************************************)
Max(a, b) == IF a >= b THEN a ELSE b

WriteAt(data, off, bytes) ==
    [i \in 1 .. Max(Len(data), off + Len(bytes)) |->
        IF i > off /\ i <= off + Len(bytes) THEN bytes[i - off]
        ELSE IF i <= Len(data) THEN data[i]
        ELSE 0]

(***************************************************************************)
(* truncatingFileWriter                                                    *)
(***************************************************************************)
\* the comparison with its operands swapped
shouldTruncate_Swapped(now, last, iv) == iv > 0 /\ last - now >= iv

\* the comparison on the distance between the two times, whichever is later
shouldTruncate_Distance(now, last, iv) ==
    iv > 0 /\ (IF now >= last THEN now - last ELSE last - now) >= iv

\* the comparison made strict: not due at the exact boundary
shouldTruncate_Strict(now, last, iv) == iv > 0 /\ now - last > iv

shouldTruncate(now, last, iv) == iv > 0 /\ now - last >= iv

\* a default interval that is not zero
NewInterval_DefaultOne(args) == IF Len(args) > 0 THEN args[1] ELSE 1

\* NewTruncatingFileWriter: the interval is the first of `intervals`, else 0
NewInterval(args) == IF Len(args) > 0 THEN args[1] ELSE 0

IdleWriter ==
    [pc |-> "idle", now |-> 0, lt |-> 0, p |-> <<>>, err |-> "nil",
     manual |-> FALSE, did |-> FALSE]

\* no Write has returned
NoRet == [n |-> 0, err |-> "nil", truncErr |-> "nil"]

IdleAppender == [pc |-> "idle", msg |-> 0]

NoRecord == [level |-> "", msg |-> {}, errf |-> {}]

IdleCaller ==
    [pc |-> "idle", op |-> "none", rec |-> NoRecord, pat |-> "",
     panicking |-> FALSE, tbPanicked |-> FALSE, res |-> FALSE]

NoPre ==
    [calls |-> 0, printed |-> 0, hasErrors |-> FALSE,
     loggingDisabled |-> FALSE, testTerminated |-> FALSE,
     patterns |-> << >>]

\* NewTestOutput(tb, formatter): no pattern, no flag set, the lock free
NewTestOutput ==
    /\ toOwner = 0
    /\ toReaders = {}
    /\ loggingDisabled = FALSE
    /\ allowedErrorPatterns = << >>
    /\ hasErrors = FALSE
    /\ testTerminated = FALSE
    /\ tbCalls = << >>
    /\ printed = << >>
    /\ tc = [c \in TOCallers |-> IdleCaller]
    /\ toRet = [c \in TOCallers |-> "none"]
    /\ toCalls = 0
    /\ toPre = NoPre

\* a logger with no sink and no filter, not logging
LoggerUnused ==
    /\ lgOutputs = 0
    /\ lgTags = << >>
    /\ lgParams = << >>
    /\ lgBehaviour = << >>
    /\ lgFilters = << >>
    /\ lgStack = << >>
    /\ lgRet = "none"
    /\ lgAppends = << >>
    /\ lgOnErrors = << >>

\* the concurrent callers of the stream sink's Append
BasicCallers == {1, 2}

\* NewFormattingOutput: no filters, nothing written
NewFormattingOutput ==
    /\ boFilters = << >>
    /\ boWrites = << >>
    /\ boOnError = [m \in 1 .. MaxBasicAppends |-> 0]
    /\ bo = [c \in BasicCallers |-> [pc |-> "idle", msg |-> 0]]
    /\ boNext = 0
    /\ boDenied = {}

\* the components added after the truncating writer and the bulk sink, when
\* a specification does not use them
RestUnused == NewTestOutput /\ LoggerUnused /\ NewFormattingOutput

\* NewBulkOutput: no rows, no filters, the lock free
NewBulk(size) ==
    /\ requested = size
    /\ sink = "created"
    /\ bulkSize = size
    /\ logs = << >>
    /\ lock = 0
    /\ filters = << >>
    /\ ap = [a \in Appenders |-> IdleAppender]
    /\ nextMsg = 0
    /\ tasks = << >>
    /\ onErrorCalls = [m \in 1 .. MaxAppends |-> 0]
    /\ appended = << >>
    /\ dropped = {}

InitTFWBase ==
    /\ NewBulk(0)
    /\ RestUnused
    /\ intervals \in CtorArgs
    /\ interval = NewInterval(intervals)
    /\ lastTruncated = 0
    /\ mu = 0
    /\ fData = <<>>
    /\ fOff = 0
    /\ clock = 0
    /\ wr = [w \in AllWriters |-> IdleWriter]
    /\ calls = 0
    /\ prior = <<>>
    /\ lastCall = "none"
    /\ lastWriteAt = -1
    /\ wlog = <<>>
    /\ manualUsed = FALSE
    /\ lastAuto = 0
    /\ lastRet = NoRet

\* The history of a single caller's calls, recorded beside each of its steps
\* when `recording` is set (SpecTFWSeq).
History(w) ==
    LET starts == wr[w].pc = "idle" /\ wr'[w].pc # "idle"
        returns == wr[w].pc # "idle" /\ wr'[w].pc = "idle"
        wrote == wr[w].pc = "wWrite"
    IN  /\ prior' = IF starts THEN fData ELSE prior
        /\ manualUsed' = (manualUsed \/ (starts /\ wr'[w].manual))
        /\ wlog' = IF wrote THEN wlog \o SubSeq(wr[w].p, 1, fOff' - fOff)
                   ELSE wlog
        /\ lastAuto' = IF wr[w].pc = "tTrunc" /\ wr'[w].pc = "tSeek"
                          /\ ~wr[w].manual
                       THEN wr[w].now ELSE lastAuto
        /\ lastRet' = IF wrote
                      THEN [n |-> fOff' - fOff,
                            err |-> IF fOff' - fOff = Len(wr[w].p)
                                    THEN "nil" ELSE "short write",
                            truncErr |-> wr[w].err]
                      ELSE lastRet
        /\ lastWriteAt' = IF wrote THEN wr[w].now ELSE lastWriteAt
        /\ lastCall' = IF ~returns THEN lastCall
                       ELSE IF wrote THEN "write"
                       ELSE IF wr[w].pc = "tSeek" THEN "truncate"
                       ELSE "truncateErr"

Hist(w) ==
    /\ recording' = recording
    /\ UNCHANGED <<bulkVars, restVars>>
    /\ IF recording THEN History(w) ELSE UNCHANGED tfwHist

\* time passes
Tick ==
    /\ clock < MaxTime
    /\ clock' = clock + 1
    /\ UNCHANGED <<intervals, interval, lastTruncated, mu, fData, fOff, wr,
                   calls, tfwHist, recording, bulkVars, restVars>>

\* Write(p), first statement: now := time.Now()
WriteStart(w, bytes) ==
    /\ wr[w].pc = "idle"
    /\ calls < MaxCalls
    /\ wr' = [wr EXCEPT ![w] = [IdleWriter EXCEPT !.pc = "wRead",
                                                  !.now = clock,
                                                  !.p = bytes]]
    /\ calls' = calls + 1
    /\ UNCHANGED <<intervals, interval, lastTruncated, mu, fData, fOff, clock>>
    /\ Hist(w)

\* Write: lastTruncated := w.getLastTruncatedUnixNano() (under RLock), then
\* the unsynchronized decision whether to call autoTruncate
WriteGuard(now, last, iv) == iv > 0 /\ shouldTruncate(now, last, iv)

ReadLastTruncated(w) ==
    /\ wr[w].pc = "wRead"
    /\ mu = 0
    /\ wr' = [wr EXCEPT ![w].lt = lastTruncated,
                        ![w].pc = IF WriteGuard(wr[w].now, lastTruncated, interval)
                                  THEN "wLock" ELSE "wWrite"]
    /\ UNCHANGED <<intervals, interval, lastTruncated, mu, fData, fOff, clock,
                   calls>>
    /\ Hist(w)

\* autoTruncate: w.mu.Lock()
AutoLock(w) ==
    /\ wr[w].pc = "wLock"
    /\ mu = 0
    /\ mu' = w
    /\ wr' = [wr EXCEPT ![w].pc = "wRecheck"]
    /\ UNCHANGED <<intervals, interval, lastTruncated, fData, fOff, clock,
                   calls>>
    /\ Hist(w)

\* autoTruncate without the check under the lock
Recheck_NoRecheck(w) ==
    /\ wr[w].pc = "wRecheck"
    /\ wr' = [wr EXCEPT ![w].pc = "tTrunc"]
    /\ UNCHANGED <<intervals, interval, lastTruncated, mu, fData, fOff, clock,
                   calls>>
    /\ Hist(w)

\* autoTruncate: the check again under the lock; when not due it returns nil
\* (the deferred Unlock runs)
Recheck(w) ==
    /\ wr[w].pc = "wRecheck"
    /\ IF shouldTruncate(wr[w].now, lastTruncated, interval)
       THEN /\ wr' = [wr EXCEPT ![w].pc = "tTrunc"]
            /\ mu' = mu
       ELSE /\ wr' = [wr EXCEPT ![w].pc = "wWrite"]
            /\ mu' = 0
    /\ UNCHANGED <<intervals, interval, lastTruncated, fData, fOff, clock,
                   calls>>
    /\ Hist(w)

\* Truncate(), called by a user: it takes no lock
TruncateStart(w) ==
    /\ wr[w].pc = "idle"
    /\ calls < MaxCalls
    /\ wr' = [wr EXCEPT ![w] = [IdleWriter EXCEPT !.pc = "tTrunc",
                                                  !.manual = TRUE]]
    /\ calls' = calls + 1
    /\ UNCHANGED <<intervals, interval, lastTruncated, mu, fData, fOff, clock>>
    /\ Hist(w)

\* Truncate: w.f.Truncate(0) succeeds: the file is empty, the offset stays
FTruncateOk(w) ==
    /\ wr[w].pc = "tTrunc"
    /\ fData' = <<>>
    /\ wr' = [wr EXCEPT ![w].pc = "tSeek", ![w].did = TRUE]
    /\ UNCHANGED <<intervals, interval, lastTruncated, mu, fOff, clock,
                   calls>>
    /\ Hist(w)

\* Write giving up when its automatic truncation fails: nothing is written
FTruncateErr_Returns(w) ==
    /\ wr[w].pc = "tTrunc"
    /\ wr' = [wr EXCEPT ![w] = IdleWriter]
    /\ mu' = IF wr[w].manual THEN mu ELSE 0
    /\ UNCHANGED <<intervals, interval, lastTruncated, fData, fOff, clock,
                   calls>>
    /\ Hist(w)

\* autoTruncate recording the time of a truncation that failed
FTruncateErr_SetsLast(w) ==
    /\ wr[w].pc = "tTrunc"
    /\ IF wr[w].manual
       THEN /\ wr' = [wr EXCEPT ![w] = IdleWriter]
            /\ mu' = mu
            /\ lastTruncated' = lastTruncated
       ELSE /\ wr' = [wr EXCEPT ![w].pc = "wWrite", ![w].err = "err"]
            /\ mu' = 0
            /\ lastTruncated' = wr[w].now
    /\ UNCHANGED <<intervals, interval, fData, fOff, clock, calls>>
    /\ Hist(w)

\* Truncate: w.f.Truncate(0) fails: Truncate returns the error; autoTruncate
\* returns it too (its deferred Unlock runs) and Write goes on to f.Write
FTruncateErr(w) ==
    /\ wr[w].pc = "tTrunc"
    /\ IF wr[w].manual
       THEN /\ wr' = [wr EXCEPT ![w] = IdleWriter]
            /\ mu' = mu
       ELSE /\ wr' = [wr EXCEPT ![w].pc = "wWrite", ![w].err = "err"]
            /\ mu' = 0
    /\ UNCHANGED <<intervals, interval, lastTruncated, fData, fOff, clock,
                   calls>>
    /\ Hist(w)

\* Truncate without its Seek: the offset is left where it was
FSeek_NoReset(w) ==
    /\ wr[w].pc = "tSeek"
    /\ fOff' = fOff
    /\ IF wr[w].manual
       THEN /\ wr' = [wr EXCEPT ![w] = IdleWriter]
       ELSE /\ wr' = [wr EXCEPT ![w].pc = "wSetLast"]
    /\ UNCHANGED <<intervals, interval, lastTruncated, mu, fData, clock,
                   calls>>
    /\ Hist(w)

\* a manual Truncate() that restarts the window
FSeek_ResetsWindow(w) ==
    /\ wr[w].pc = "tSeek"
    /\ fOff' = 0
    /\ IF wr[w].manual
       THEN /\ wr' = [wr EXCEPT ![w] = IdleWriter]
            /\ lastTruncated' = clock
       ELSE /\ wr' = [wr EXCEPT ![w].pc = "wSetLast"]
            /\ lastTruncated' = lastTruncated
    /\ UNCHANGED <<intervals, interval, mu, fData, clock, calls>>
    /\ Hist(w)

\* Truncate: w.f.Seek(0, 0), then return nil
FSeek(w) ==
    /\ wr[w].pc = "tSeek"
    /\ fOff' = 0
    /\ IF wr[w].manual
       THEN /\ wr' = [wr EXCEPT ![w] = IdleWriter]
       ELSE /\ wr' = [wr EXCEPT ![w].pc = "wSetLast"]
    /\ UNCHANGED <<intervals, interval, lastTruncated, mu, fData, clock,
                   calls>>
    /\ Hist(w)

\* autoTruncate returning without its Unlock: the lock is kept for the write
SetLastTruncated_HoldsLock(w) ==
    /\ wr[w].pc = "wSetLast"
    /\ lastTruncated' = wr[w].now
    /\ mu' = mu
    /\ wr' = [wr EXCEPT ![w].pc = "wWrite"]
    /\ UNCHANGED <<intervals, interval, fData, fOff, clock,
                   calls>>
    /\ Hist(w)

\* autoTruncate: w.lastTruncated = now, return nil (the deferred Unlock runs)
SetLastTruncated(w) ==
    /\ wr[w].pc = "wSetLast"
    /\ lastTruncated' = wr[w].now
    /\ mu' = 0
    /\ wr' = [wr EXCEPT ![w].pc = "wWrite"]
    /\ UNCHANGED <<intervals, interval, fData, fOff, clock,
                   calls>>
    /\ Hist(w)

\* Write: return w.f.Write(p)
FWrite(w) ==
    /\ wr[w].pc = "wWrite"
    /\ fData' = WriteAt(fData, fOff, wr[w].p)
    /\ fOff' = fOff + Len(wr[w].p)
    /\ wr' = [wr EXCEPT ![w] = IdleWriter]
    /\ UNCHANGED <<intervals, interval, lastTruncated, mu, clock,
                   calls>>
    /\ Hist(w)

\* Write: w.f.Write(p) fails: n < len(p) bytes were written and Write
\* returns n and the error
FWriteErr(w, n) ==
    /\ wr[w].pc = "wWrite"
    /\ n < Len(wr[w].p)
    /\ fData' = IF n = 0 THEN fData
                ELSE WriteAt(fData, fOff, SubSeq(wr[w].p, 1, n))
    /\ fOff' = fOff + n
    /\ wr' = [wr EXCEPT ![w] = IdleWriter]
    /\ UNCHANGED <<intervals, interval, lastTruncated, mu, clock,
                   calls>>
    /\ Hist(w)

\* a caller starts a call
StartStep(w) ==
    \/ \E bytes \in Payloads : WriteStart(w, bytes)
    \/ TruncateStart(w)

\* a caller goes on with its call
BodyStep(w) ==
    \/ ReadLastTruncated(w)
    \/ AutoLock(w)
    \/ Recheck(w)
    \/ FTruncateOk(w)
    \/ FTruncateErr(w)
    \/ FSeek(w)
    \/ SetLastTruncated(w)
    \/ FWrite(w)

WriterStep(w) == StartStep(w) \/ BodyStep(w)

\* one caller, its calls one after the other
InitTFWSeq == InitTFWBase /\ recording = TRUE

NextTFWSeq == Tick \/ WriterStep(1)

SpecTFWSeq == InitTFWSeq /\ [][NextTFWSeq]_vars

\* one caller, and a file whose Write can fail
NextTFWFail ==
    \/ Tick
    \/ WriterStep(1)
    \/ \E n \in 0 .. 1 : FWriteErr(1, n)

SpecTFWFail == InitTFWSeq /\ [][NextTFWFail]_vars

\* two concurrent callers
InitTFW == InitTFWBase /\ recording = FALSE

NextTFW == Tick \/ \E w \in Writers : WriterStep(w)

SpecTFW == InitTFW /\ [][NextTFW]_vars

\* The writer that keeps lastTruncatedUnixNano in an int64 and reads it with
\* atomic.LoadInt64: the read takes no lock; the rest of Write and Truncate
\* is the same.
LoadLastTruncated(w) ==
    /\ wr[w].pc = "wRead"
    /\ wr' = [wr EXCEPT ![w].lt = lastTruncated,
                        ![w].pc = IF shouldTruncate(wr[w].now, lastTruncated, interval)
                                  THEN "wLock" ELSE "wWrite"]
    /\ UNCHANGED <<intervals, interval, lastTruncated, mu, fData, fOff, clock,
                   calls>>
    /\ Hist(w)

AtomicBodyStep(w) ==
    \/ LoadLastTruncated(w)
    \/ AutoLock(w)
    \/ Recheck(w)
    \/ FTruncateOk(w)
    \/ FTruncateErr(w)
    \/ FSeek(w)
    \/ SetLastTruncated(w)
    \/ FWrite(w)

NextTFWAtomic == Tick \/ \E w \in Writers : StartStep(w) \/ AtomicBodyStep(w)

SpecTFWAtomic == InitTFW /\ [][NextTFWAtomic]_vars

\* three concurrent callers, which start as many calls as there are callers
NextTFW3 ==
    \/ Tick
    \/ \E w \in AllWriters :
          \/ calls < Cardinality(AllWriters) /\ StartStep(w)
          \/ BodyStep(w)

SpecTFW3 == InitTFW /\ [][NextTFW3]_vars

(***************************************************************************)
(* bulkOutput                                                              *)
(***************************************************************************)
\* the byte that ends a row in the flushed buffer ("\n")
NL == 0

\* the conjunction of the chain: every filter must allow the message
Allows(chain, m) == \A i \in 1 .. Len(chain) : m \notin chain[i]

\* LogFormatter.FormatRow: one line that holds no NL; as the tests'
\* nopFormatter, the message
FormatRow(m) == << m >>

\* flushIfNeeded's loop: each row formatted and followed by "\n"
RECURSIVE Render(_)
Render(rows) ==
    IF rows = << >> THEN << >>
    ELSE FormatRow(Head(rows)) \o << NL >> \o Render(Tail(rows))

\* SetFilters: the chain is replaced
SetFilters(chain) ==
    /\ filters' = chain
    /\ UNCHANGED <<requested, sink, bulkSize, logs, lock, ap, nextMsg, tasks,
                   onErrorCalls, appended, dropped>>
    /\ UNCHANGED <<tfwVars, tfwHist, recording, restVars>>

\* Append without its early return: the denied record is kept
AppendDenied_Keeps(a) ==
    /\ ap[a].pc = "idle"
    /\ nextMsg < MaxAppends
    /\ ~Allows(filters, nextMsg + 1)
    /\ nextMsg' = nextMsg + 1
    /\ dropped' = dropped \cup {nextMsg + 1}
    /\ ap' = [ap EXCEPT ![a] = [pc |-> "append", msg |-> nextMsg + 1]]
    /\ UNCHANGED <<requested, sink, bulkSize, logs, lock, filters, tasks,
                   onErrorCalls, appended>>
    /\ UNCHANGED <<tfwVars, tfwHist, recording, restVars>>

\* Append: the filters deny the record and Append returns
AppendDenied(a) ==
    /\ ap[a].pc = "idle"
    /\ nextMsg < MaxAppends
    /\ ~Allows(filters, nextMsg + 1)
    /\ nextMsg' = nextMsg + 1
    /\ dropped' = dropped \cup {nextMsg + 1}
    /\ UNCHANGED <<requested, sink, bulkSize, logs, lock, filters, ap, tasks,
                   onErrorCalls, appended>>
    /\ UNCHANGED <<tfwVars, tfwHist, recording, restVars>>

\* Append: the filters allow the record and the row is built
AppendAllowed(a) ==
    /\ ap[a].pc = "idle"
    /\ nextMsg < MaxAppends
    /\ Allows(filters, nextMsg + 1)
    /\ nextMsg' = nextMsg + 1
    /\ ap' = [ap EXCEPT ![a] = [pc |-> "append", msg |-> nextMsg + 1]]
    /\ UNCHANGED <<requested, sink, bulkSize, logs, lock, filters, tasks,
                   onErrorCalls, appended, dropped>>
    /\ UNCHANGED <<tfwVars, tfwHist, recording, restVars>>

\* Append replacing the pending rows by its row
AppendRow_Overwrites(a) ==
    /\ ap[a].pc = "append"
    /\ lock = 0
    /\ logs' = << ap[a].msg >>
    /\ appended' = Append(appended, ap[a].msg)
    /\ ap' = [ap EXCEPT ![a].pc = "flush"]
    /\ UNCHANGED <<requested, sink, bulkSize, lock, filters, nextMsg, tasks,
                   onErrorCalls, dropped>>
    /\ UNCHANGED <<tfwVars, tfwHist, recording, restVars>>

\* Append putting the row in front of the pending rows
AppendRow_Prepend(a) ==
    /\ ap[a].pc = "append"
    /\ lock = 0
    /\ logs' = << ap[a].msg >> \o logs
    /\ appended' = Append(appended, ap[a].msg)
    /\ ap' = [ap EXCEPT ![a].pc = "flush"]
    /\ UNCHANGED <<requested, sink, bulkSize, lock, filters, nextMsg, tasks,
                   onErrorCalls, dropped>>
    /\ UNCHANGED <<tfwVars, tfwHist, recording, restVars>>

\* Append: out.lock.Lock(); out.logs = append(out.logs, row); out.lock.Unlock()
AppendRow(a) ==
    /\ ap[a].pc = "append"
    /\ lock = 0
    /\ logs' = Append(logs, ap[a].msg)
    /\ appended' = Append(appended, ap[a].msg)
    /\ ap' = [ap EXCEPT ![a].pc = "flush"]
    /\ UNCHANGED <<requested, sink, bulkSize, lock, filters, nextMsg, tasks,
                   onErrorCalls, dropped>>
    /\ UNCHANGED <<tfwVars, tfwHist, recording, restVars>>

\* flushIfNeeded: out.lock.Lock()
FlushLock(a) ==
    /\ ap[a].pc = "flush"
    /\ lock = 0
    /\ lock' = a
    /\ ap' = [ap EXCEPT ![a].pc = "check"]
    /\ UNCHANGED <<requested, sink, bulkSize, logs, filters, nextMsg, tasks,
                   onErrorCalls, appended, dropped>>
    /\ UNCHANGED <<tfwVars, tfwHist, recording, restVars>>

\* the threshold compared strictly
FlushDue_Strict(n, size) == n > size

\* flushIfNeeded: the threshold is met
FlushDue(n, size) == n >= size

\* flushIfNeeded leaving the formatting to the goroutine: the buffer it
\* hands over is empty
FlushDetach_Unformatted(a) ==
    /\ ap[a].pc = "check"
    /\ FlushDue(Len(logs), bulkSize)
    /\ tasks' = Append(tasks, [b |-> << >>, rows |-> logs,
                                cb |-> ap[a].msg,
                                st |-> "started", res |-> "none", at |-> 0])
    /\ logs' = << >>
    /\ ap' = [ap EXCEPT ![a].pc = "ret"]
    /\ UNCHANGED <<requested, sink, bulkSize, lock, filters, nextMsg, onErrorCalls, appended, dropped>>
    /\ UNCHANGED <<tfwVars, tfwHist, recording, restVars>>

\* flushIfNeeded starting the goroutine without out.logs = nil
FlushDetach_KeepsRows(a) ==
    /\ ap[a].pc = "check"
    /\ FlushDue(Len(logs), bulkSize)
    /\ tasks' = Append(tasks, [b |-> Render(logs), rows |-> logs,
                                cb |-> ap[a].msg,
                                st |-> "started", res |-> "none", at |-> 0])
    /\ logs' = logs
    /\ ap' = [ap EXCEPT ![a].pc = "ret"]
    /\ UNCHANGED <<requested, sink, bulkSize, lock, filters, nextMsg, onErrorCalls, appended, dropped>>
    /\ UNCHANGED <<tfwVars, tfwHist, recording, restVars>>

\* flushIfNeeded, threshold met: the rows are formatted into the buffer,
\* out.logs = nil, and the goroutine that will write the buffer is started
\* with the caller's onError
FlushDetach(a) ==
    /\ ap[a].pc = "check"
    /\ FlushDue(Len(logs), bulkSize)
    /\ tasks' = Append(tasks, [b |-> Render(logs), rows |-> logs,
                                cb |-> ap[a].msg,
                                st |-> "started", res |-> "none", at |-> 0])
    /\ logs' = << >>
    /\ ap' = [ap EXCEPT ![a].pc = "ret"]
    /\ UNCHANGED <<requested, sink, bulkSize, lock, filters, nextMsg, onErrorCalls, appended, dropped>>
    /\ UNCHANGED <<tfwVars, tfwHist, recording, restVars>>

\* flushIfNeeded, threshold not met: it returns (the deferred Unlock runs)
FlushSkip(a) ==
    /\ ap[a].pc = "check"
    /\ ~FlushDue(Len(logs), bulkSize)
    /\ lock' = 0
    /\ ap' = [ap EXCEPT ![a] = IdleAppender]
    /\ UNCHANGED <<requested, sink, bulkSize, logs, filters, nextMsg, tasks,
                   onErrorCalls, appended, dropped>>
    /\ UNCHANGED <<tfwVars, tfwHist, recording, restVars>>

\* flushIfNeeded writing the buffer itself, without `go`: it returns only
\* once the Write of the batch it detached has returned
FlushReturn_Inline(a) ==
    /\ ap[a].pc = "ret"
    /\ \A t \in DOMAIN tasks : tasks[t].cb = ap[a].msg => tasks[t].st = "done"
    /\ lock' = 0
    /\ ap' = [ap EXCEPT ![a] = IdleAppender]
    /\ UNCHANGED <<requested, sink, bulkSize, logs, filters, nextMsg, tasks,
                   onErrorCalls, appended, dropped>>
    /\ UNCHANGED <<tfwVars, tfwHist, recording, restVars>>

\* flushIfNeeded returns after the go statement (the deferred Unlock runs)
FlushReturn(a) ==
    /\ ap[a].pc = "ret"
    /\ lock' = 0
    /\ ap' = [ap EXCEPT ![a] = IdleAppender]
    /\ UNCHANGED <<requested, sink, bulkSize, logs, filters, nextMsg, tasks,
                   onErrorCalls, appended, dropped>>
    /\ UNCHANGED <<tfwVars, tfwHist, recording, restVars>>

\* a goroutine that begins its Write only when the Writes of the batches
\* detached before its own have returned
TaskWriteBegin_InOrder(t) ==
    /\ t \in DOMAIN tasks
    /\ tasks[t].st = "started"
    /\ \A u \in 1 .. t - 1 : tasks[u].st = "done"
    /\ tasks' = [tasks EXCEPT ![t].st = "writing", ![t].at = nextMsg]
    /\ UNCHANGED <<requested, sink, bulkSize, logs, lock, filters, ap, nextMsg,
                   onErrorCalls, appended, dropped>>
    /\ UNCHANGED <<tfwVars, tfwHist, recording, restVars>>

\* the goroutine: out.writer.Write(b.Bytes()) is called; while the Write is
\* in progress `at` holds the number of Append calls started before it began
TaskWriteBegin(t) ==
    /\ t \in DOMAIN tasks
    /\ tasks[t].st = "started"
    /\ tasks' = [tasks EXCEPT ![t].st = "writing", ![t].at = nextMsg]
    /\ UNCHANGED <<requested, sink, bulkSize, logs, lock, filters, ap, nextMsg,
                   onErrorCalls, appended, dropped>>
    /\ UNCHANGED <<tfwVars, tfwHist, recording, restVars>>

\* the goroutine: Write returns a nil error; the goroutine ends
TaskWriteOk(t) ==
    /\ t \in DOMAIN tasks
    /\ tasks[t].st = "writing"
    /\ tasks' = [tasks EXCEPT ![t].st = "done", ![t].res = "ok", ![t].at = 0]
    /\ UNCHANGED <<requested, sink, bulkSize, logs, lock, filters, ap, nextMsg,
                   onErrorCalls, appended, dropped>>
    /\ UNCHANGED <<tfwVars, tfwHist, recording, restVars>>

\* the goroutine dropping the error of Write
TaskWriteErr_Silent(t) ==
    /\ t \in DOMAIN tasks
    /\ tasks[t].st = "writing"
    /\ tasks' = [tasks EXCEPT ![t].st = "done", ![t].res = "err", ![t].at = 0]
    /\ UNCHANGED <<requested, sink, bulkSize, logs, lock, filters, ap, nextMsg,
                   onErrorCalls, appended, dropped>>
    /\ UNCHANGED <<tfwVars, tfwHist, recording, restVars>>

\* the goroutine: Write returns an error: onError(err), then the line
\* printed; the goroutine ends
TaskWriteErr(t) ==
    /\ t \in DOMAIN tasks
    /\ tasks[t].st = "writing"
    /\ tasks' = [tasks EXCEPT ![t].st = "done", ![t].res = "err", ![t].at = 0]
    /\ onErrorCalls' = [onErrorCalls EXCEPT ![tasks[t].cb] = @ + 1]
    /\ UNCHANGED <<requested, sink, bulkSize, logs, lock, filters, ap, nextMsg,
                   appended, dropped>>
    /\ UNCHANGED <<tfwVars, tfwHist, recording, restVars>>

\* a caller starts an Append
AppendStart(a) == AppendDenied(a) \/ AppendAllowed(a)

\* a caller goes on with its Append
AppendBody(a) ==
    \/ AppendRow(a)
    \/ FlushLock(a)
    \/ FlushDetach(a)
    \/ FlushSkip(a)
    \/ FlushReturn(a)

\* a goroutine started by flushIfNeeded goes on
TaskStep(t) ==
    \/ TaskWriteBegin(t)
    \/ TaskWriteOk(t)
    \/ TaskWriteErr(t)

\* the truncating writer, not used by the bulk sink's specifications
TFWUnused ==
    /\ intervals = << >>
    /\ interval = 0
    /\ lastTruncated = 0
    /\ mu = 0
    /\ fData = << >>
    /\ fOff = 0
    /\ clock = 0
    /\ wr = [w \in AllWriters |-> IdleWriter]
    /\ calls = 0
    /\ prior = << >>
    /\ lastCall = "none"
    /\ lastWriteAt = -1
    /\ wlog = << >>
    /\ manualUsed = FALSE
    /\ lastAuto = 0
    /\ lastRet = NoRet
    /\ recording = FALSE

InitBulk ==
    /\ TFWUnused
    /\ RestUnused
    /\ \E size \in 0 .. MaxBulkSize : NewBulk(size)

\* one caller, its Append calls one after the other
NextBulkSeq ==
    \/ \E chain \in FilterChains : SetFilters(chain)
    \/ AppendStart(1) \/ AppendBody(1)
    \/ \E t \in 1 .. MaxAppends : TaskStep(t)

SpecBulkSeq == InitBulk /\ [][NextBulkSeq]_vars

\* concurrent callers
NextBulk ==
    \/ \E chain \in FilterChains : SetFilters(chain)
    \/ \E a \in Appenders : AppendStart(a) \/ AppendBody(a)
    \/ \E t \in 1 .. MaxAppends : TaskStep(t)

SpecBulk == InitBulk /\ [][NextBulk]_vars

(***************************************************************************)
(* NewBulkOutput as a step: the sink does not exist before it.             *)
(***************************************************************************)
\* the bulkSize arguments passed to NewBulkOutput: small ones, a negative
\* one, and the ones around the ceiling
CtorSizes == (-1 .. MaxBulkSize) \cup (Ceiling - 1 .. Ceiling + 2)

\* the ceiling included in the refused sizes
TooLarge_Inclusive(size) == size >= Ceiling

\* NewBulkOutput: if bulkSize > 1000
TooLarge(size) == size > Ceiling

\* NewBulkOutput(writer, formatter, bulkSize): panics, or returns the sink
NewBulkOutput ==
    /\ sink = "none"
    /\ IF TooLarge(requested)
       THEN /\ sink' = "panicked"
            /\ UNCHANGED <<bulkSize, logs, lock, filters>>
       ELSE /\ sink' = "created"
            /\ bulkSize' = requested
            /\ logs' = << >>
            /\ lock' = 0
            /\ filters' = << >>
    /\ UNCHANGED <<requested, ap, nextMsg, tasks, onErrorCalls, appended,
                   dropped>>
    /\ UNCHANGED <<tfwVars, tfwHist, recording, restVars>>

\* before the constructor is called with the argument `requested`
InitBulkCtor ==
    /\ TFWUnused
    /\ RestUnused
    /\ requested \in CtorSizes
    /\ sink = "none"
    /\ bulkSize = 0
    /\ logs = << >>
    /\ lock = 0
    /\ filters = << >>
    /\ ap = [a \in Appenders |-> IdleAppender]
    /\ nextMsg = 0
    /\ tasks = << >>
    /\ onErrorCalls = [m \in 1 .. MaxAppends |-> 0]
    /\ appended = << >>
    /\ dropped = {}

\* the constructor, then one caller using the sink it returned
NextBulkCtor ==
    \/ NewBulkOutput
    \/ sink = "created" /\ NextBulkSeq

SpecBulkCtor == InitBulkCtor /\ [][NextBulkCtor]_vars

(***************************************************************************)
(* TestOutput (the test-harness sink). Every call takes o.RWMutex: Lock()  *)
(* in Append, AllowErrorsMatching and TestTerminated, RLock() in           *)
(* HasErrors. The backend o.tb is outside the repository: each of its      *)
(* calls either returns or panics.                                         *)
(***************************************************************************)
\* regexp.Compile(pattern): nil when the pattern is not a regular expression
Compile(pattern) == IF pattern = "(" THEN "nil" ELSE pattern

\* (*Regexp).MatchString of a compiled pattern: the text contains the word
MatchString(re, text) == re \in text

\* TestOutput.allowed, from the i-th pattern on: "true" at the first pattern
\* that matches the message or the field with key "error", "false" when the
\* patterns are exhausted, "panic" when it calls MatchString on a nil pattern
RECURSIVE allowed(_, _, _)
allowed(patterns, rec, i) ==
    IF i > Len(patterns) THEN "false"
    ELSE IF patterns[i] = "nil" THEN "panic"
    ELSE IF MatchString(patterns[i], rec.msg) THEN "true"
    ELSE IF MatchString(patterns[i], rec.errf) THEN "true"
    ELSE allowed(patterns, rec, i + 1)

\* formatter.FormatRow(time.Now(), level, message, fields...)
FormatLine(rec) == << "line", rec.level, rec.msg, rec.errf >>

TEST_FAILED_ERROR == << "TEST_FAILED_ERROR" >>

toData == <<loggingDisabled, allowedErrorPatterns, hasErrors, testTerminated>>

notTO == <<tfwVars, tfwHist, recording, bulkVars, lgVars, boVars>>

\* a call starts
TOStart(c, op, rec, pat) ==
    /\ tc[c].pc = "idle"
    /\ toCalls < MaxTOCalls
    /\ toCalls' = toCalls + 1
    /\ tc' = [tc EXCEPT ![c] = [IdleCaller EXCEPT
                 !.pc = IF op = "HasErrors" THEN "rlock" ELSE "lock",
                 !.op = op, !.rec = rec, !.pat = pat]]
    /\ toRet' = [toRet EXCEPT ![c] = "none"]
    /\ UNCHANGED <<toOwner, toReaders, toData, tbCalls, printed, toPre>>
    /\ UNCHANGED notTO

AppendTOStart(c, rec) == TOStart(c, "Append", rec, "")

AllowErrorsMatchingStart(c, pattern) ==
    TOStart(c, "AllowErrorsMatching", NoRecord, pattern)

\* TestTerminated setting the flag without taking the lock
TestTerminatedStart_Unlocked(c) ==
    /\ tc[c].pc = "idle"
    /\ toCalls < MaxTOCalls
    /\ toCalls' = toCalls + 1
    /\ testTerminated' = TRUE
    /\ toRet' = [toRet EXCEPT ![c] = "returned"]
    /\ UNCHANGED <<toOwner, toReaders, loggingDisabled, allowedErrorPatterns,
                   hasErrors, tbCalls, printed, tc, toPre>>
    /\ UNCHANGED notTO

TestTerminatedStart(c) == TOStart(c, "TestTerminated", NoRecord, "")

HasErrorsStart(c) == TOStart(c, "HasErrors", NoRecord, "")

\* o.Lock()
TOLock(c) ==
    /\ tc[c].pc = "lock"
    /\ toOwner = 0
    /\ toReaders = {}
    /\ toOwner' = c
    /\ toPre' = [calls |-> Len(tbCalls), printed |-> Len(printed),
                 hasErrors |-> hasErrors,
                 loggingDisabled |-> loggingDisabled,
                 testTerminated |-> testTerminated,
                 patterns |-> allowedErrorPatterns]
    /\ tc' = [tc EXCEPT ![c].pc =
                 IF tc[c].op = "Append" THEN "check"
                 ELSE IF tc[c].op = "AllowErrorsMatching" THEN "allow"
                 ELSE "term"]
    /\ UNCHANGED <<toReaders, toData, tbCalls, printed, toRet, toCalls>>
    /\ UNCHANGED notTO

\* the deferred o.Unlock(); the call returns, or the panic goes on to the
\* caller
TOUnlock(c) ==
    /\ tc[c].pc = "unlock"
    /\ toOwner' = 0
    /\ toPre' = NoPre
    /\ toRet' = [toRet EXCEPT ![c] =
                    IF tc[c].panicking THEN "panicked" ELSE "returned"]
    /\ tc' = [tc EXCEPT ![c] = IdleCaller]
    /\ UNCHANGED <<toReaders, toData, tbCalls, printed, toCalls>>
    /\ UNCHANGED notTO

\* Append going on although logging is disabled
AppendDisabled_GoesOn(c) ==
    /\ tc[c].pc = "check"
    /\ loggingDisabled
    /\ tc' = [tc EXCEPT ![c].pc = "decide"]
    /\ UNCHANGED <<toOwner, toReaders, toData, tbCalls, printed, toRet,
                   toCalls, toPre>>
    /\ UNCHANGED notTO

\* the early return of Append without the Unlock
AppendDisabled_KeepsLock(c) ==
    /\ tc[c].pc = "check"
    /\ loggingDisabled
    /\ tc' = [tc EXCEPT ![c] = IdleCaller]
    /\ toRet' = [toRet EXCEPT ![c] = "returned"]
    /\ UNCHANGED <<toOwner, toReaders, toData, tbCalls, printed, toCalls,
                   toPre>>
    /\ UNCHANGED notTO

\* Append: if o.isLoggingDisabled() { return }
AppendDisabled(c) ==
    /\ tc[c].pc = "check"
    /\ loggingDisabled
    /\ tc' = [tc EXCEPT ![c].pc = "unlock"]
    /\ UNCHANGED <<toOwner, toReaders, toData, tbCalls, printed, toRet,
                   toCalls, toPre>>
    /\ UNCHANGED notTO

\* Append: logging is enabled, the line is rendered
AppendFormat(c) ==
    /\ tc[c].pc = "check"
    /\ ~loggingDisabled
    /\ tc' = [tc EXCEPT ![c].pc = "decide"]
    /\ UNCHANGED <<toOwner, toReaders, toData, tbCalls, printed, toRet,
                   toCalls, toPre>>
    /\ UNCHANGED notTO

\* the condition of Append with the level ignored
Disallowed_AnyLevel(patterns, rec) == allowed(patterns, rec, 1)

\* Append: level == "error" && !o.allowed(message, fields), as "true" (the
\* record is a disallowed error), "false", or "panic" (allowed panicked)
Disallowed(patterns, rec) ==
    IF rec.level # "error" THEN "false"
    ELSE IF allowed(patterns, rec, 1) = "false" THEN "true"
    ELSE IF allowed(patterns, rec, 1) = "true" THEN "false"
    ELSE "panic"

\* Append: o.allowed panics on a nil pattern; nothing in Append recovers
AppendAllowedPanics(c) ==
    /\ tc[c].pc = "decide"
    /\ Disallowed(allowedErrorPatterns, tc[c].rec) = "panic"
    /\ tc' = [tc EXCEPT ![c].pc = "unlock", ![c].panicking = TRUE]
    /\ UNCHANGED <<toOwner, toReaders, toData, tbCalls, printed, toRet,
                   toCalls, toPre>>
    /\ UNCHANGED notTO

\* Append, else branch: o.tb.Log(logLine)
AppendLog(c) ==
    /\ tc[c].pc = "decide"
    /\ Disallowed(allowedErrorPatterns, tc[c].rec) = "false"
    /\ tbCalls' = Append(tbCalls, << "Log", FormatLine(tc[c].rec) >>)
    /\ \E panics \in BOOLEAN :
         tc' = [tc EXCEPT ![c].pc = "unlock", ![c].panicking = panics]
    /\ UNCHANGED <<toOwner, toReaders, toData, printed, toRet, toCalls, toPre>>
    /\ UNCHANGED notTO

\* Append without disableLogging
AppendDisableLogging_Skipped(c) ==
    /\ tc[c].pc = "decide"
    /\ Disallowed(allowedErrorPatterns, tc[c].rec) = "true"
    /\ tc' = [tc EXCEPT ![c].pc = "rec"]
    /\ UNCHANGED <<toOwner, toReaders, toData, tbCalls, printed, toRet,
                   toCalls, toPre>>
    /\ UNCHANGED notTO

\* Append, disallowed error: o.disableLogging()
AppendDisableLogging(c) ==
    /\ tc[c].pc = "decide"
    /\ Disallowed(allowedErrorPatterns, tc[c].rec) = "true"
    /\ loggingDisabled' = TRUE
    /\ tc' = [tc EXCEPT ![c].pc = "rec"]
    /\ UNCHANGED <<toOwner, toReaders, allowedErrorPatterns, hasErrors,
                   testTerminated, tbCalls, printed, toRet, toCalls, toPre>>
    /\ UNCHANGED notTO

\* recordError without o.hasErrors = true
RecordErrorBegin_KeepsFlag(c) ==
    /\ tc[c].pc = "rec"
    /\ tc' = [tc EXCEPT ![c].pc = IF ~testTerminated THEN "err1" ELSE "fail"]
    /\ UNCHANGED <<toOwner, toReaders, toData, tbCalls, printed, toRet,
                   toCalls, toPre>>
    /\ UNCHANGED notTO

\* recordError reporting line by line also after TestTerminated
RecordErrorBegin_IgnoresTerminated(c) ==
    /\ tc[c].pc = "rec"
    /\ hasErrors' = TRUE
    /\ tc' = [tc EXCEPT ![c].pc = "err1"]
    /\ UNCHANGED <<toOwner, toReaders, loggingDisabled, allowedErrorPatterns,
                   testTerminated, tbCalls, printed, toRet, toCalls, toPre>>
    /\ UNCHANGED notTO

\* recordError: o.hasErrors = true; if !o.testTerminated
RecordErrorBegin(c) ==
    /\ tc[c].pc = "rec"
    /\ hasErrors' = TRUE
    /\ tc' = [tc EXCEPT ![c].pc = IF ~testTerminated THEN "err1" ELSE "fail"]
    /\ UNCHANGED <<toOwner, toReaders, loggingDisabled, allowedErrorPatterns,
                   testTerminated, tbCalls, printed, toRet, toCalls, toPre>>
    /\ UNCHANGED notTO

\* a call on the backend from recordError: it returns (the caller goes on to
\* `next`) or panics (the deferred function of recordError runs)
TBCall(c, call, next) ==
    /\ tbCalls' = Append(tbCalls, call)
    /\ \E panics \in BOOLEAN :
         tc' = [tc EXCEPT ![c].pc = IF panics THEN "recover" ELSE next,
                          ![c].tbPanicked = panics]
    /\ UNCHANGED <<toOwner, toReaders, toData, printed, toRet, toCalls, toPre>>
    /\ UNCHANGED notTO

\* recordError: o.tb.Error(line)
RecordErrorLine(c) ==
    /\ tc[c].pc = "err1"
    /\ TBCall(c, << "Error", FormatLine(tc[c].rec) >>, "err2")

\* recordError without the second call
RecordErrorMarker_Missing(c) ==
    /\ tc[c].pc = "err2"
    /\ tc' = [tc EXCEPT ![c].pc = "unlock"]
    /\ UNCHANGED <<toOwner, toReaders, toData, tbCalls, printed, toRet,
                   toCalls, toPre>>
    /\ UNCHANGED notTO

\* recordError: o.tb.Error(TEST_FAILED_ERROR)
RecordErrorMarker(c) ==
    /\ tc[c].pc = "err2"
    /\ TBCall(c, << "Error", TEST_FAILED_ERROR >>, "unlock")

\* recordError after TestTerminated: o.tb.Fail()
RecordErrorFail(c) ==
    /\ tc[c].pc = "fail"
    /\ TBCall(c, << "Fail", << >> >>, "post")

\* recordError after TestTerminated: fmt.Println(POST_TERMINATED_ERROR, ...)
RecordErrorPrint(c) ==
    /\ tc[c].pc = "post"
    /\ printed' = Append(printed,
                         << "POST_TERMINATED_ERROR", FormatLine(tc[c].rec) >>)
    /\ tc' = [tc EXCEPT ![c].pc = "unlock"]
    /\ UNCHANGED <<toOwner, toReaders, toData, tbCalls, toRet, toCalls, toPre>>
    /\ UNCHANGED notTO

\* the panic of the backend going through recordError
RecordErrorRecover_Rethrows(c) ==
    /\ tc[c].pc = "recover"
    /\ tc' = [tc EXCEPT ![c].pc = "unlock", ![c].panicking = TRUE]
    /\ UNCHANGED <<toOwner, toReaders, toData, tbCalls, printed, toRet,
                   toCalls, toPre>>
    /\ UNCHANGED notTO

\* recordError, deferred: recover(), fmt.Println(TEST_RUNNER_PANIC_ERROR, ...)
RecordErrorRecover(c) ==
    /\ tc[c].pc = "recover"
    /\ printed' = Append(printed,
                         << "TEST_RUNNER_PANIC_ERROR", FormatLine(tc[c].rec) >>)
    /\ tc' = [tc EXCEPT ![c].pc = "unlock"]
    /\ UNCHANGED <<toOwner, toReaders, toData, tbCalls, toRet, toCalls, toPre>>
    /\ UNCHANGED notTO

\* AllowErrorsMatching enabling logging again
AllowErrorsMatching_Reenables(c) ==
    /\ tc[c].pc = "allow"
    /\ allowedErrorPatterns' = Append(allowedErrorPatterns, Compile(tc[c].pat))
    /\ loggingDisabled' = FALSE
    /\ tc' = [tc EXCEPT ![c].pc = "unlock"]
    /\ UNCHANGED <<toOwner, toReaders, hasErrors,
                   testTerminated, tbCalls, printed, toRet, toCalls, toPre>>
    /\ UNCHANGED notTO

\* AllowErrorsMatching: the compiled pattern (nil when Compile failed) is
\* appended
AllowErrorsMatching(c) ==
    /\ tc[c].pc = "allow"
    /\ allowedErrorPatterns' = Append(allowedErrorPatterns, Compile(tc[c].pat))
    /\ tc' = [tc EXCEPT ![c].pc = "unlock"]
    /\ UNCHANGED <<toOwner, toReaders, loggingDisabled, hasErrors,
                   testTerminated, tbCalls, printed, toRet, toCalls, toPre>>
    /\ UNCHANGED notTO

\* TestTerminated: o.testTerminated = true
TestTerminated(c) ==
    /\ tc[c].pc = "term"
    /\ testTerminated' = TRUE
    /\ tc' = [tc EXCEPT ![c].pc = "unlock"]
    /\ UNCHANGED <<toOwner, toReaders, loggingDisabled, allowedErrorPatterns,
                   hasErrors, tbCalls, printed, toRet, toCalls, toPre>>
    /\ UNCHANGED notTO

\* HasErrors taking the shared lock while a writer holds the lock
HasErrorsRLock_NoWait(c) ==
    /\ tc[c].pc = "rlock"
    /\ toReaders' = toReaders \cup {c}
    /\ tc' = [tc EXCEPT ![c].pc = "read"]
    /\ UNCHANGED <<toOwner, toData, tbCalls, printed, toRet, toCalls, toPre>>
    /\ UNCHANGED notTO

\* HasErrors: o.RLock()
HasErrorsRLock(c) ==
    /\ tc[c].pc = "rlock"
    /\ toOwner = 0
    /\ toReaders' = toReaders \cup {c}
    /\ tc' = [tc EXCEPT ![c].pc = "read"]
    /\ UNCHANGED <<toOwner, toData, tbCalls, printed, toRet, toCalls, toPre>>
    /\ UNCHANGED notTO

\* HasErrors: return o.hasErrors
HasErrorsRead(c) ==
    /\ tc[c].pc = "read"
    /\ tc' = [tc EXCEPT ![c].pc = "runlock", ![c].res = hasErrors]
    /\ UNCHANGED <<toOwner, toReaders, toData, tbCalls, printed, toRet,
                   toCalls, toPre>>
    /\ UNCHANGED notTO

\* HasErrors: the deferred o.RUnlock()
HasErrorsRUnlock(c) ==
    /\ tc[c].pc = "runlock"
    /\ toReaders' = toReaders \ {c}
    /\ toRet' = [toRet EXCEPT ![c] = IF tc[c].res THEN "true" ELSE "false"]
    /\ tc' = [tc EXCEPT ![c] = IdleCaller]
    /\ UNCHANGED <<toOwner, toData, tbCalls, printed, toCalls, toPre>>
    /\ UNCHANGED notTO

\* the steps of a call that has started
TOBody(c) ==
    \/ TOLock(c) \/ TOUnlock(c)
    \/ AppendDisabled(c) \/ AppendFormat(c)
    \/ AppendAllowedPanics(c) \/ AppendLog(c) \/ AppendDisableLogging(c)
    \/ RecordErrorBegin(c) \/ RecordErrorLine(c) \/ RecordErrorMarker(c)
    \/ RecordErrorFail(c) \/ RecordErrorPrint(c) \/ RecordErrorRecover(c)
    \/ AllowErrorsMatching(c) \/ TestTerminated(c)
    \/ HasErrorsRLock(c) \/ HasErrorsRead(c) \/ HasErrorsRUnlock(c)

TOStartAny(c) ==
    \/ \E rec \in Records : AppendTOStart(c, rec)
    \/ \E pattern \in PatternArgs : AllowErrorsMatchingStart(c, pattern)
    \/ TestTerminatedStart(c)
    \/ HasErrorsStart(c)

InitTO ==
    /\ TFWUnused
    /\ NewBulk(0)
    /\ NewTestOutput
    /\ LoggerUnused
    /\ NewFormattingOutput

\* one caller, its calls one after the other
NextTOSeq == TOStartAny(1) \/ TOBody(1)

SpecTOSeq == InitTO /\ [][NextTOSeq]_vars

\* concurrent callers
NextTO == \E c \in TOCallers : TOStartAny(c) \/ TOBody(c)

SpecTO == InitTO /\ [][NextTO]_vars

\* Parallel callers that only append error records to a sink with no allow
\* pattern (every record is a disallowed error) and call HasErrors, as in
\* TestTestOutput_Append_NoRacesInMultipleConcurrentCalls and
\* TestOutputSynchronizesHasErrorsAndAppendError.
ErrorRecords == {rec \in Records : rec.level = "error"}

TOErrorsBody(c) ==
    \/ TOLock(c) \/ TOUnlock(c)
    \/ AppendDisabled(c) \/ AppendFormat(c) \/ AppendDisableLogging(c)
    \/ RecordErrorBegin(c) \/ RecordErrorLine(c) \/ RecordErrorMarker(c)
    \/ RecordErrorRecover(c)
    \/ HasErrorsRLock(c) \/ HasErrorsRead(c) \/ HasErrorsRUnlock(c)

NextTOErrors ==
    \E c \in TOCallers :
        \/ \E rec \in ErrorRecords : AppendTOStart(c, rec)
        \/ HasErrorsStart(c)
        \/ TOErrorsBody(c)

\* a caller inside a call goes on running; a caller waiting for the lock
\* gets it once it stays free
SpecTOErrors ==
    /\ InitTO
    /\ [][NextTOErrors]_vars
    /\ \A c \in TOCallers : WF_vars(TOErrorsBody(c))

(***************************************************************************)
(* basicLogger (the orchestrator): log filters the record and hands it to  *)
(* every sink through appendTo, which recovers a panic of the sink and     *)
(* routes it, like an error the sink reports, to onError; onError logs a   *)
(* secondary event with logLoggingErrors = false. The sinks are outside    *)
(* the logger: what a sink's Append does is drawn when the logger is built, *)
(* for the primary call and for the secondary one.                         *)
(***************************************************************************)
\* what an Append can do: return, call onError then return, or panic with
\* an error, a string, or a value of another type
SinkOutcomes == {"ok", "onError", "panicError", "panicString", "panicOther"}

\* ... and inside the secondary call
SecondaryOutcomes == {"ok", "onError", "panicString"}

\* the filter chains of a logger: a filter is the set of event kinds it denies
LgFilterChains == {<< >>, << {}, {"secondary"} >>, << {"primary"} >>}

\* the value a sink panics with
PanicValue(outcome) ==
    IF outcome = "panicError" THEN [type |-> "error", text |-> "boom"]
    ELSE IF outcome = "panicString" THEN [type |-> "string", text |-> "bang"]
    ELSE [type |-> "other", text |-> "42"]

\* appendTo, deferred: the error made of the recovered value
RecoveredError(v) ==
    IF v.type = "error" THEN v.text
    ELSE IF v.type = "string" THEN v.text
    ELSE "unknown error object type"

\* Field.Nested is an AggregateField: << >> is the nil interface, << fields >>
\* the aggregateField that holds the fields.
\* a field that is not an aggregate (String, Int, Error, ...)
Leaf(key) == [Key |-> key, Type |-> "StringType", Nested |-> << >>]

\* Aggregate(name, fields...)
Aggregate(name, fields) ==
    [Key |-> name, Type |-> "AggregateType", Nested |-> << fields >>]

\* a Field built by hand with Type AggregateType and no Nested: its payload
\* is not a field sequence
NilAggregate(name) ==
    [Key |-> name, Type |-> "AggregateType", Nested |-> << >>]

\* Field.IsNested
IsNested(f) == f.Type = "AggregateType"

\* Field.Value of an aggregate: f.Nested.NestedFields()
Value(f) == f.Nested[1]

\* the two fields log puts first: the caller's function and source
Function == Leaf("function")

Source == Leaf("source")

\* the tags a logger has inherited (WithTags) together with the fields a
\* call of Log passes: plain fields, or aggregates nested twice and empty
LgFieldInputs ==
    { [tags |-> << Leaf("node") >>,
       params |-> << Leaf("a"), Leaf("b") >>],
      [tags |-> << Aggregate("ctx", << Leaf("node"),
                                       Aggregate("chain", << Leaf("vcid") >>) >>),
                   Leaf("svc") >>,
       params |-> << Leaf("a"),
                     Aggregate("agg", << Leaf("b"),
                                         Aggregate("inner", << Leaf("c") >>),
                                         Leaf("d") >>),
                     Aggregate("empty", << >>),
                     Leaf("e") >>] }

\* fields of a call whose flattening cannot succeed: an aggregate without a
\* payload among the fields of the call, or nested in an inherited tag
LgBadFieldInputs ==
    { [tags |-> << Leaf("node") >>,
       params |-> << Leaf("a"), NilAggregate("bad"), Leaf("b") >>],
      [tags |-> << Aggregate("ctx", << Leaf("node"), NilAggregate("bad") >>) >>,
       params |-> << Leaf("a") >>] }

\* flattenParams panics: it comes, at some depth, to a nested field whose
\* Value() is not a []*Field (Value() itself panics on the nil Nested)
RECURSIVE flattenPanics(_)
flattenPanics(params) ==
    \E i \in DOMAIN params :
        /\ IsNested(params[i])
        /\ \/ params[i].Nested = << >>
           \/ flattenPanics(Value(params[i]))

\* flattenParams without the recursion: the nested fields are appended as
\* they are
flattenParams_Shallow(params) ==
    LET one(p) == IF ~IsNested(p) THEN << p >> ELSE Value(p)
        RECURSIVE go(_)
        go(ps) == IF ps = << >> THEN << >>
                  ELSE one(Head(ps)) \o go(Tail(ps))
    IN  go(params)

\* flattenParams: a field that is not nested is kept, a nested one is
\* replaced by its flattened nested fields
RECURSIVE flattenParams(_)
flattenParams(params) ==
    IF params = << >> THEN << >>
    ELSE (IF ~IsNested(Head(params)) THEN << Head(params) >>
          ELSE flattenParams(Value(Head(params))))
         \o flattenParams(Tail(params))

\* log: enrichmentParams, the fields the filters and the sinks are given
enrichmentParams(params) ==
    flattenParams(<< Function, Source >> \o lgTags \o params)

\* the record of Log(level, message, params...)
PrimaryEvent ==
    [kind |-> "primary", level |-> "info", msg |-> << "m" >>,
     fields |-> enrichmentParams(lgParams)]

\* logLoggingError logging at level "info"
SecondaryEvent_Info(err) ==
    [kind |-> "secondary", level |-> "info",
     msg |-> << "failed to append log to output", err >>,
     fields |-> enrichmentParams(<< >>)]

\* logLoggingError: b.log(false, "error", "failed to append log to output: " + err)
SecondaryEvent(err) ==
    [kind |-> "secondary", level |-> "error",
     msg |-> << "failed to append log to output", err >>,
     fields |-> enrichmentParams(<< >>)]

\* log: the loop over b.filters
LgAllows(chain, ev) == \A n \in DOMAIN chain : ev.kind \notin chain[n]

\* a frame of b.log(logLoggingErrors, ...)
Frame(flag, ev) ==
    [pc |-> "filter", i |-> 0, logLoggingErrors |-> flag, ev |-> ev,
     pv |-> [type |-> "none", text |-> ""], err |-> ""]

Top == lgStack[Len(lgStack)]

SetTop(frame) == [lgStack EXCEPT ![Len(lgStack)] = frame]

\* what sink i does for a call of the given nesting
Outcome(i, depth) == lgBehaviour[i][IF depth = 1 THEN 1 ELSE 2]

notLg == <<tfwVars, tfwHist, recording, bulkVars, toVars, boVars>>

lgConfig == <<lgOutputs, lgTags, lgParams, lgBehaviour, lgFilters>>

\* b.log returns: the frame is dropped; the onError that called it returns,
\* and the frame below goes on with its next sink
LgReturned ==
    /\ lgStack' =
         IF Len(lgStack) = 1 THEN << >>
         ELSE [SubSeq(lgStack, 1, Len(lgStack) - 1) EXCEPT
                 ![Len(lgStack) - 1].pc = "fan",
                 ![Len(lgStack) - 1].i = @ + 1]
    /\ lgRet' = IF Len(lgStack) = 1 THEN "returned" ELSE lgRet

\* the fields log flattens for a call of Log
LgAllFields == << Function, Source >> \o lgTags \o lgParams

\* log handing the fields to the filters as they are
LogCall_Unflattened ==
    /\ lgStack = << >>
    /\ lgStack' = << Frame(TRUE, [kind |-> "primary", level |-> "info",
                                  msg |-> << "m" >>, fields |-> LgAllFields]) >>
    /\ lgRet' = "running"
    /\ lgAppends' = << >>
    /\ lgOnErrors' = << >>
    /\ UNCHANGED lgConfig
    /\ UNCHANGED notLg

\* Log(level, message): b.log(true, level, message); the panic of
\* flattenParams is not recovered and ends the call
LogCall ==
    /\ lgStack = << >>
    /\ IF flattenPanics(LgAllFields)
       THEN lgStack' = << >> /\ lgRet' = "flattenPanic"
       ELSE lgStack' = << Frame(TRUE, PrimaryEvent) >> /\ lgRet' = "running"
    /\ lgAppends' = << >>
    /\ lgOnErrors' = << >>
    /\ UNCHANGED lgConfig
    /\ UNCHANGED notLg

\* log going on to the sinks although a filter denies the record
LgFilterDeny_Delivers ==
    /\ lgStack # << >> /\ Top.pc = "filter"
    /\ ~LgAllows(lgFilters, Top.ev)
    /\ lgStack' = SetTop([Top EXCEPT !.pc = "fan", !.i = 1])
    /\ UNCHANGED <<lgConfig, lgRet, lgAppends, lgOnErrors>>
    /\ UNCHANGED notLg

\* log: some filter denies the record
LgFilterDeny ==
    /\ lgStack # << >> /\ Top.pc = "filter"
    /\ ~LgAllows(lgFilters, Top.ev)
    /\ LgReturned
    /\ UNCHANGED <<lgConfig, lgAppends, lgOnErrors>>
    /\ UNCHANGED notLg

\* log: every filter allows the record; the loop over b.outputs begins
LgFilterAllow ==
    /\ lgStack # << >> /\ Top.pc = "filter"
    /\ LgAllows(lgFilters, Top.ev)
    /\ lgStack' = SetTop([Top EXCEPT !.pc = "fan", !.i = 1])
    /\ UNCHANGED <<lgConfig, lgRet, lgAppends, lgOnErrors>>
    /\ UNCHANGED notLg

\* appendTo: output.Append(onError, level, message, ...) of the next sink
LgAppendTo ==
    /\ lgStack # << >> /\ Top.pc = "fan" /\ Top.i <= lgOutputs
    /\ lgAppends' = Append(lgAppends, [sink |-> Top.i, ev |-> Top.ev,
                                       depth |-> Len(lgStack)])
    /\ LET o == Outcome(Top.i, Len(lgStack))
       IN  lgStack' = SetTop(
             IF o = "ok" THEN [Top EXCEPT !.i = @ + 1]
             ELSE IF o = "onError"
                  THEN [Top EXCEPT !.pc = "onError", !.err = "write failed"]
             ELSE [Top EXCEPT !.pc = "recover", !.pv = PanicValue(o)])
    /\ UNCHANGED <<lgConfig, lgRet, lgOnErrors>>
    /\ UNCHANGED notLg

\* appendTo without its deferred recover: the panic unwinds to the caller
LgRecover_Missing ==
    /\ lgStack # << >> /\ Top.pc = "recover"
    /\ lgStack' = << >>
    /\ lgRet' = "panicked"
    /\ UNCHANGED <<lgConfig, lgAppends, lgOnErrors>>
    /\ UNCHANGED notLg

\* appendTo, deferred: recover() and the switch on the recovered value
LgRecover ==
    /\ lgStack # << >> /\ Top.pc = "recover"
    /\ lgStack' = SetTop([Top EXCEPT !.pc = "onError",
                                     !.err = RecoveredError(Top.pv)])
    /\ UNCHANGED <<lgConfig, lgRet, lgAppends, lgOnErrors>>
    /\ UNCHANGED notLg

\* onError logging the secondary event whatever logLoggingErrors is
LgOnError_AlwaysLogs ==
    /\ lgStack # << >> /\ Top.pc = "onError"
    /\ lgOnErrors' = Append(lgOnErrors,
                            [sink |-> Top.i, err |-> Top.err,
                             logs |-> TRUE, depth |-> Len(lgStack)])
    /\ lgStack' = Append(SetTop([Top EXCEPT !.pc = "inOnError"]),
                         Frame(TRUE, SecondaryEvent(Top.err)))
    /\ UNCHANGED <<lgConfig, lgRet, lgAppends>>
    /\ UNCHANGED notLg

\* onError(err): if logLoggingErrors { b.logLoggingError(err) }
LgOnError ==
    /\ lgStack # << >> /\ Top.pc = "onError"
    /\ lgOnErrors' = Append(lgOnErrors,
                            [sink |-> Top.i, err |-> Top.err,
                             logs |-> Top.logLoggingErrors,
                             depth |-> Len(lgStack)])
    /\ lgStack' =
         IF Top.logLoggingErrors
         THEN Append(SetTop([Top EXCEPT !.pc = "inOnError"]),
                     Frame(FALSE, SecondaryEvent(Top.err)))
         ELSE SetTop([Top EXCEPT !.pc = "fan", !.i = @ + 1])
    /\ UNCHANGED <<lgConfig, lgRet, lgAppends>>
    /\ UNCHANGED notLg

\* log: the loop over b.outputs is over
LgReturn ==
    /\ lgStack # << >> /\ Top.pc = "fan" /\ Top.i > lgOutputs
    /\ LgReturned
    /\ UNCHANGED <<lgConfig, lgAppends, lgOnErrors>>
    /\ UNCHANGED notLg

\* the steps of a Log call that has started
LgBody ==
    \/ LgFilterDeny \/ LgFilterAllow
    \/ LgAppendTo \/ LgRecover \/ LgOnError
    \/ LgReturn

InitLog ==
    /\ TFWUnused
    /\ NewBulk(0)
    /\ NewTestOutput
    /\ NewFormattingOutput
    /\ lgOutputs \in 0 .. MaxSinks
    /\ \E in \in LgFieldInputs : lgTags = in.tags /\ lgParams = in.params
    /\ lgBehaviour \in [1 .. lgOutputs ->
                          {<< p, q >> : p \in SinkOutcomes,
                                        q \in SecondaryOutcomes}]
    /\ lgFilters \in LgFilterChains
    /\ lgStack = << >>
    /\ lgRet = "none"
    /\ lgAppends = << >>
    /\ lgOnErrors = << >>

NextLog == LogCall \/ LgBody

\* a logger whose tags and fields may hold an aggregate without a payload
InitLogFields ==
    /\ TFWUnused
    /\ NewBulk(0)
    /\ NewTestOutput
    /\ NewFormattingOutput
    /\ lgOutputs \in 0 .. MaxSinks
    /\ \E in \in LgFieldInputs \cup LgBadFieldInputs :
          lgTags = in.tags /\ lgParams = in.params
    /\ lgBehaviour \in [1 .. lgOutputs ->
                          {<< p, q >> : p \in SinkOutcomes,
                                        q \in SecondaryOutcomes}]
    /\ lgFilters \in LgFilterChains
    /\ lgStack = << >>
    /\ lgRet = "none"
    /\ lgAppends = << >>
    /\ lgOnErrors = << >>

SpecLogFields == InitLogFields /\ [][NextLog]_vars

(***************************************************************************)
(* A logger with a TestOutput among its sinks. The goroutine that calls    *)
(* Log is caller 1 of the TestOutput: appendTo calls its Append and goes   *)
(* on when it has returned or panicked. The test itself is caller 2: it    *)
(* registers allow patterns, reads HasErrors and calls TestTerminated.     *)
(***************************************************************************)
\* the calls the test makes on its TestOutput
MaxHarnessCalls == 2

\* the patterns the test allows: the text of a sink's error, and a string
\* that is not a regular expression
HarnessPatterns == {"write failed", "("}

\* the sink of the logger that is the TestOutput
IsHarness(i) == lgBehaviour[i] = << "harness", "harness" >>

\* what TestOutput.Append is given for an event of the logger: level and
\* message; no field of the logger's events has the key "error"
TORecord(ev) ==
    [level |-> ev.level,
     msg |-> {ev.msg[n] : n \in DOMAIN ev.msg},
     errf |-> {}]

\* the value a nil pattern makes allowed() panic with
NilDereference == [type |-> "error", text |-> "nil pointer dereference"]

\* appendTo of a sink that is not the TestOutput
LgAppendToOther ==
    /\ lgStack # << >> /\ Top.pc = "fan" /\ Top.i <= lgOutputs
    /\ ~IsHarness(Top.i)
    /\ LgAppendTo

\* appendTo of the TestOutput: output.Append(onError, level, message, ...)
LgAppendToHarness ==
    /\ lgStack # << >> /\ Top.pc = "fan" /\ Top.i <= lgOutputs
    /\ IsHarness(Top.i)
    /\ tc[1].pc = "idle"
    /\ lgAppends' = Append(lgAppends, [sink |-> Top.i, ev |-> Top.ev,
                                       depth |-> Len(lgStack)])
    /\ lgStack' = SetTop([Top EXCEPT !.pc = "inSink"])
    /\ tc' = [tc EXCEPT ![1] = [IdleCaller EXCEPT
                 !.pc = "lock", !.op = "Append", !.rec = TORecord(Top.ev)]]
    /\ toRet' = [toRet EXCEPT ![1] = "none"]
    /\ UNCHANGED <<lgConfig, lgRet, lgOnErrors>>
    /\ UNCHANGED <<toOwner, toReaders, toData, tbCalls, printed, toCalls,
                   toPre>>
    /\ UNCHANGED <<tfwVars, tfwHist, recording, bulkVars, boVars>>

\* the TestOutput's Append is over: appendTo returns, or its deferred
\* function recovers the panic
LgHarnessDone ==
    /\ lgStack # << >> /\ Top.pc = "inSink"
    /\ tc[1].pc = "idle" /\ toRet[1] \in {"returned", "panicked"}
    /\ lgStack' = SetTop(
          IF toRet[1] = "returned" THEN [Top EXCEPT !.pc = "fan", !.i = @ + 1]
          ELSE [Top EXCEPT !.pc = "recover", !.pv = NilDereference])
    /\ UNCHANGED <<lgConfig, lgRet, lgAppends, lgOnErrors>>
    /\ UNCHANGED notLg

\* the steps of a Log call over sinks of both kinds
LgHarnessBody ==
    \/ LgFilterDeny \/ LgFilterAllow
    \/ LgAppendToOther \/ LgAppendToHarness \/ LgHarnessDone
    \/ LgRecover \/ LgOnError
    \/ LgReturn
    \/ TOBody(1)

\* the test's calls
HarnessTestCall ==
    /\ toCalls < MaxHarnessCalls
    /\ \/ \E pattern \in HarnessPatterns : AllowErrorsMatchingStart(2, pattern)
       \/ TestTerminatedStart(2)
       \/ HasErrorsStart(2)

\* a logger over one TestOutput and at most one other sink
InitLogTO ==
    /\ TFWUnused
    /\ NewBulk(0)
    /\ NewTestOutput
    /\ NewFormattingOutput
    /\ lgOutputs \in {1, 2}
    /\ lgTags = << Leaf("node") >>
    /\ lgParams = << Leaf("a") >>
    /\ lgBehaviour \in [1 .. lgOutputs ->
                          {<< p, q >> : p \in SinkOutcomes,
                                        q \in SecondaryOutcomes}
                          \cup {<< "harness", "harness" >>}]
    /\ Cardinality({i \in 1 .. lgOutputs : IsHarness(i)}) = 1
    /\ lgFilters \in LgFilterChains
    /\ lgStack = << >>
    /\ lgRet = "none"
    /\ lgAppends = << >>
    /\ lgOnErrors = << >>

\* the one Log call of the goroutine
LgHarnessLogCall == lgRet = "none" /\ LogCall

NextLogTO ==
    LgHarnessLogCall \/ LgHarnessBody \/ HarnessTestCall \/ TOBody(2)

SpecLogTO == InitLogTO /\ [][NextLogTO]_vars

\* the goroutine that called Log goes on running
SpecLog == InitLog /\ [][NextLog]_vars /\ WF_vars(LgBody)

(***************************************************************************)
(* basicOutput (the stream sink): Append filters the record, formats it    *)
(* and writes the line to the writer with one Fprintln; a failed write is  *)
(* reported to onError before Append returns. The sink has no lock. The    *)
(* k-th Append call logs message k.                                        *)
(***************************************************************************)
notBo == <<tfwVars, tfwHist, recording, bulkVars, toVars, lgVars>>

\* SetFilters: out.filters = and{filters}
BasicSetFilters(chain) ==
    /\ boFilters' = chain
    /\ UNCHANGED <<boWrites, boOnError, bo, boNext, boDenied>>
    /\ UNCHANGED notBo

\* Append: the filters deny the record and Append returns
BasicAppendDenied(c) ==
    /\ bo[c].pc = "idle"
    /\ boNext < MaxBasicAppends
    /\ ~Allows(boFilters, boNext + 1)
    /\ boNext' = boNext + 1
    /\ boDenied' = boDenied \cup {boNext + 1}
    /\ UNCHANGED <<boFilters, boWrites, boOnError, bo>>
    /\ UNCHANGED notBo

\* Append: the filters allow the record
BasicAppendAllowed(c) ==
    /\ bo[c].pc = "idle"
    /\ boNext < MaxBasicAppends
    /\ Allows(boFilters, boNext + 1)
    /\ boNext' = boNext + 1
    /\ bo' = [bo EXCEPT ![c] = [pc |-> "write", msg |-> boNext + 1]]
    /\ UNCHANGED <<boFilters, boWrites, boOnError, boDenied>>
    /\ UNCHANGED notBo

\* FormatRow and Fprintln: one Write of the line and "\n", which returns nil
BasicWriteOk(c) ==
    /\ bo[c].pc = "write"
    /\ boWrites' = Append(boWrites, [cb |-> bo[c].msg, res |-> "ok",
                                     b |-> FormatRow(bo[c].msg) \o << NL >>])
    /\ bo' = [bo EXCEPT ![c] = [pc |-> "idle", msg |-> 0]]
    /\ UNCHANGED <<boFilters, boOnError, boNext, boDenied>>
    /\ UNCHANGED notBo

\* FormatRow and Fprintln: the Write returns an error
BasicWriteErr(c) ==
    /\ bo[c].pc = "write"
    /\ boWrites' = Append(boWrites, [cb |-> bo[c].msg, res |-> "err",
                                     b |-> FormatRow(bo[c].msg) \o << NL >>])
    /\ bo' = [bo EXCEPT ![c].pc = "onError"]
    /\ UNCHANGED <<boFilters, boOnError, boNext, boDenied>>
    /\ UNCHANGED notBo

\* Append returning without reporting the failed write
BasicOnError_Silent(c) ==
    /\ bo[c].pc = "onError"
    /\ bo' = [bo EXCEPT ![c] = [pc |-> "idle", msg |-> 0]]
    /\ UNCHANGED <<boFilters, boWrites, boOnError, boNext, boDenied>>
    /\ UNCHANGED notBo

\* if err != nil { onError(err) }, and Append returns
BasicOnError(c) ==
    /\ bo[c].pc = "onError"
    /\ boOnError' = [boOnError EXCEPT ![bo[c].msg] = @ + 1]
    /\ bo' = [bo EXCEPT ![c] = [pc |-> "idle", msg |-> 0]]
    /\ UNCHANGED <<boFilters, boWrites, boNext, boDenied>>
    /\ UNCHANGED notBo

BasicAppendStart(c) == BasicAppendDenied(c) \/ BasicAppendAllowed(c)

BasicAppendBody(c) == BasicWriteOk(c) \/ BasicWriteErr(c) \/ BasicOnError(c)

InitBasic ==
    /\ TFWUnused
    /\ NewBulk(0)
    /\ NewTestOutput
    /\ LoggerUnused
    /\ NewFormattingOutput

NextBasic ==
    \/ \E chain \in FilterChains : BasicSetFilters(chain)
    \/ \E c \in BasicCallers : BasicAppendStart(c) \/ BasicAppendBody(c)

SpecBasic == InitBasic /\ [][NextBasic]_vars

(***************************************************************************)
(* Properties of the truncating writer, one caller (SpecTFWSeq).           *)
(***************************************************************************)
\* the step in which the single caller's Write does w.f.Write(p) and returns
WriteReturns == wr[1].pc = "wWrite" /\ wr'[1].pc = "idle"

\* C1 as stated: with interval > 0, after a write at time t0 (lastWriteAt), a
\* later write at a time earlier than t0 + interval leaves the prior content
\* in place (the file holds prior content followed by the new payload), and
\* a later write at a time later than t0 + interval clears it (the file
\* holds only the new payload). Stated for writes whose truncate call, if
\* any, succeeded.
C1_WindowFromLastWrite ==
    [][(WriteReturns /\ interval > 0 /\ lastCall = "write" /\ wr[1].err = "nil")
        => /\ (wr[1].now < lastWriteAt + interval => fData' = prior \o wr[1].p)
           /\ (wr[1].now > lastWriteAt + interval => fData' = wr[1].p)]_vars

\* C1 as amended: the window is counted from lastTruncated (the creation
\* time or the time of the last automatic truncation), the value the Write
\* read on entry (wr[1].lt), not from the previous write: a write earlier
\* than lastTruncated + interval leaves the prior content in place, a write
\* later than lastTruncated + interval clears it, when its truncate call
\* succeeds.
C1_WindowFromLastTruncation ==
    [][(WriteReturns /\ interval > 0 /\ lastCall = "write" /\ wr[1].err = "nil")
        => /\ (wr[1].now < wr[1].lt + interval => fData' = prior \o wr[1].p)
           /\ (wr[1].now > wr[1].lt + interval => fData' = wr[1].p)]_vars

\* C1 witness: only Writes were called, an automatic truncation happened
\* after the first window and the file holds less than what was written
C1_Witness ==
    /\ interval > 0 /\ ~manualUsed /\ lastCall = "write" /\ wr[1].pc = "idle"
    /\ lastTruncated > interval
    /\ fData # <<>> /\ Len(fData) < Len(wlog)

\* C2: a writer constructed with interval 0 or with no interval never
\* truncates automatically, whatever time passes: its Write never enters
\* autoTruncate, lastTruncated stays at the creation time, and as long as
\* only Write is called the file holds every payload in write order.
C2_ZeroIntervalConcatenates ==
    (intervals = <<>> \/ intervals = <<0>>)
        => /\ wr[1].manual \/ wr[1].pc \in {"idle", "wRead", "wWrite"}
           /\ lastTruncated = 0
           /\ ~manualUsed => fData = wlog

\* C2 witness: no interval given, three Writes returned while the clock ran
\* to MaxTime, and the file holds all three payloads
C2_Witness ==
    /\ intervals = <<>> /\ ~manualUsed /\ wr[1].pc = "idle"
    /\ clock = MaxTime /\ lastWriteAt = MaxTime
    /\ fData = <<1, 2, 3, 1>>

\* C3: a Write that follows a manual Truncate() which returned nil finds the
\* file empty and the offset at the start, so after it the file holds
\* exactly its payload.
C3_ManualTruncate ==
    [][(WriteReturns /\ lastCall = "truncate")
        => /\ prior = <<>>
           /\ fData' = wr[1].p
           /\ fOff' = Len(wr[1].p)]_vars

\* C3 witness: no automatic truncation (interval 0); Write, Truncate, Write
\* returned and the file holds the second payload only
C3_Witness ==
    /\ interval = 0 /\ manualUsed /\ lastCall = "write" /\ wr[1].pc = "idle"
    /\ wlog = <<2, 3, 1>> /\ fData = <<1>>

\* C4: one caller; when a Write finds truncation due (interval > 0 and
\* now - lastTruncated >= interval, the boundary included) and its truncate
\* call succeeds, then before w.f.Write(p) the file is empty, the offset is 0
\* and lastTruncated = now, and right after the Write the file holds exactly
\* p.
C4_TruncateBeforeWrite ==
    [][(WriteReturns /\ interval > 0 /\ wr[1].now - wr[1].lt >= interval
          /\ wr[1].err = "nil")
        => /\ fData = <<>> /\ fOff = 0 /\ lastTruncated = wr[1].now
           /\ fData' = wr[1].p]_vars

\* C4 witness: the first automatic truncation happened at the exact boundary
\* (lastTruncated = creation time + interval) over earlier content
C4_Witness ==
    /\ interval > 0 /\ ~manualUsed /\ lastCall = "write" /\ wr[1].pc = "idle"
    /\ lastTruncated = interval /\ lastWriteAt = interval
    /\ Len(wlog) > Len(fData) /\ fData \in Payloads

(***************************************************************************)
(* Properties of the truncating writer, concurrent callers (SpecTFW3).     *)
(***************************************************************************)
Abs(x) == IF x >= 0 THEN x ELSE 0 - x

\* caller w is in a Write whose unsynchronized check found truncation due
Passed(w) ==
    /\ ~wr[w].manual
    /\ wr[w].pc \in {"wLock", "wRecheck", "tTrunc", "tSeek", "wSetLast", "wWrite"}
    /\ interval > 0
    /\ wr[w].now - wr[w].lt >= interval

\* a and b race on the same time window: both passed the unsynchronized
\* check against the same value of lastTruncated, and their captured `now`
\* values differ by less than interval
Race(a, b) ==
    /\ a # b /\ Passed(a) /\ Passed(b)
    /\ wr[a].lt = wr[b].lt
    /\ Abs(wr[a].now - wr[b].now) < interval

\* caller w is past autoTruncate, which returned nil
Rechecked(w) == wr[w].pc = "wWrite" /\ wr[w].err = "nil"

\* C5 as stated: of the writers racing on one window exactly one performs
\* the truncation. Stated for two racers whose autoTruncate both returned
\* nil: one of them truncated, or (read in the claim's favour) the writer
\* that set lastTruncated was within the window of both and so may be a
\* racer that has returned since.
C5_ExactlyOneTruncates ==
    \A a, b \in AllWriters :
        (Race(a, b) /\ Rechecked(a) /\ Rechecked(b))
            => \/ wr[a].did /\ ~wr[b].did
               \/ wr[b].did /\ ~wr[a].did
               \/ /\ ~wr[a].did /\ ~wr[b].did
                  /\ Abs(lastTruncated - wr[a].now) < interval
                  /\ Abs(lastTruncated - wr[b].now) < interval

\* C5 as amended: of the writers racing on one window at most one performs
\* the truncation: a racer that re-checks under the lock after another racer
\* truncated finds truncation no longer due and does not truncate.
C5_AtMostOneTruncates ==
    \A a, b \in AllWriters : Race(a, b) => ~(wr[a].did /\ wr[b].did)

\* C5 witness: two racers, the first truncated and the second, having
\* re-checked under the lock, goes on to its write without truncating
C5_Witness ==
    \E a, b \in AllWriters :
        /\ Race(a, b) /\ Rechecked(a) /\ Rechecked(b)
        /\ wr[a].did /\ ~wr[b].did
        /\ lastTruncated = wr[a].now

\* the single caller's step out of the position pc
Leaves(pc) == wr[1].pc = pc /\ wr'[1].pc # pc

\* C24: a manual Truncate() leaves lastTruncated as it is, and a Write
\* decides to truncate, before and under the lock, exactly when interval > 0
\* and its `now` is at least interval after the last automatic truncation
\* that succeeded (the creation time if there was none), whatever manual
\* truncations were made in between.
C24_ManualKeepsWindow ==
    [][/\ (wr[1].manual \/ wr'[1].manual) =>
            lastTruncated' = lastTruncated /\ lastAuto' = lastAuto
       /\ Leaves("wRead") =>
            (wr'[1].pc = "wLock"
               <=> interval > 0 /\ wr[1].now - lastAuto >= interval)
       /\ Leaves("wRecheck") =>
            (wr'[1].pc = "tTrunc"
               <=> interval > 0 /\ wr[1].now - lastAuto >= interval)
      ]_vars

\* C24 witness: interval 1, an automatic truncation at time 1, then a manual
\* Truncate(), and the Write at time 2 has truncated again
C24_Witness ==
    /\ interval = 1 /\ lastTruncated = 1 /\ lastAuto = 2
    /\ manualUsed /\ lastCall = "truncate"
    /\ wr[1].pc = "wSetLast" /\ wr[1].now = 2

\* C25: a Write whose automatic truncation fails goes on: the failure leaves
\* the file as it is and releases the lock, the Write then does f.Write(p)
\* without waiting, and returns what f.Write returned: the count written and
\* nil, or a smaller count and the error of the write, never the error of
\* the truncation.
C25_FailedTruncationStillWrites ==
    /\ [](wr[1].pc = "wWrite" => ENABLED FWrite(1))
    /\ [][/\ (Leaves("tTrunc") /\ ~wr[1].manual) =>
               /\ wr'[1].pc \in {"tSeek", "wWrite"}
               /\ wr'[1].pc = "wWrite" =>
                     wr'[1].err = "err" /\ fData' = fData /\ mu' = 0
          /\ (Leaves("wWrite") /\ wr[1].err = "err") =>
               /\ wr'[1].pc = "idle"
               /\ \E n \in 0 .. Len(wr[1].p) :
                     /\ fData' = IF n = 0 THEN fData
                                 ELSE WriteAt(fData, fOff, SubSeq(wr[1].p, 1, n))
                     /\ lastRet' = [n |-> n,
                                    err |-> IF n = Len(wr[1].p) THEN "nil"
                                            ELSE "short write",
                                    truncErr |-> "err"]
         ]_vars

\* C25 witness: the automatic truncation of a Write of two bytes failed; the
\* Write returned (2, nil) and its bytes follow the content that was not
\* truncated
C25_Witness ==
    /\ wr[1].pc = "idle" /\ lastCall = "write"
    /\ lastRet = [n |-> 2, err |-> "nil", truncErr |-> "err"]
    /\ Len(fData) > 2
    /\ SubSeq(fData, Len(fData) - 1, Len(fData)) = << 2, 3 >>

\* C26: lastTruncated is the creation time at first, and the only step that
\* changes it is the assignment of autoTruncate after a truncation that
\* succeeded, which sets it to the `now` of that Write: a Write for which
\* truncation is not due, a Write whose truncation fails and a manual
\* Truncate() leave it as it is. The Write that follows a Write whose
\* truncation failed therefore finds truncation due again, before and under
\* the lock.
C26_LastTruncatedFrame ==
    /\ lastTruncated = clock
    /\ [][/\ lastTruncated' # lastTruncated =>
               /\ wr[1].pc = "wSetLast" /\ ~wr[1].manual /\ wr[1].did
               /\ lastTruncated' = wr[1].now
          /\ (Leaves("wRead") /\ lastRet.truncErr = "err") =>
               wr'[1].pc = "wLock"
          /\ (Leaves("wRecheck") /\ lastRet.truncErr = "err") =>
               wr'[1].pc = "tTrunc"
         ]_vars

\* C26 witness: the truncation of the last Write failed, lastTruncated is
\* still the creation time, and the next Write has truncated
C26_Witness ==
    /\ lastRet.truncErr = "err" /\ lastTruncated = 0
    /\ wr[1].pc = "wSetLast" /\ wr[1].did /\ wr[1].now > 0

\* the positions of a Write between Lock() and the deferred Unlock()
LockSection == {"wRecheck", "tTrunc", "tSeek", "wSetLast"}

C28_LastTruncatedMonotonic ==
    /\ [](\A w \in Writers :
            (wr[w].pc \in {"tTrunc", "tSeek", "wSetLast"} /\ ~wr[w].manual)
            => wr[w].now >= lastTruncated + interval /\ interval > 0)
    /\ [][/\ lastTruncated' >= lastTruncated
          /\ \A w \in Writers :
                (wr[w].pc = "wRecheck" /\ wr'[w].pc # "wRecheck"
                 /\ wr[w].now < lastTruncated)
                => /\ wr'[w].pc = "wWrite" /\ ~wr'[w].did
                   /\ lastTruncated' = lastTruncated /\ fData' = fData
         ]_vars

\* C28 witness: a writer that found truncation due took the lock after
\* another writer with a later `now` had truncated: it did not truncate, and
\* lastTruncated is the later time
C28_Witness ==
    \E w \in Writers :
        /\ wr[w].pc = "wWrite" /\ ~wr[w].did /\ wr[w].err = "nil"
        /\ WriteGuard(wr[w].now, wr[w].lt, interval)
        /\ wr[w].now < lastTruncated

\* no call is in progress
Quiescent == \A w \in Writers : wr[w].pc = "idle"

\* the content is payloads one after the other, from position 0, with no
\* gap (a gap reads as 0, which no payload holds)
RECURSIVE IsConcat(_)
IsConcat(d) ==
    \/ d = << >>
    \/ \E p \in Payloads :
          /\ Len(p) <= Len(d)
          /\ SubSeq(d, 1, Len(p)) = p
          /\ IsConcat(SubSeq(d, Len(p) + 1, Len(d)))

\* C29 as stated: whenever no call is in progress the content of the file
\* is a gap-free concatenation of written payloads starting at position 0,
\* also when a write of another caller ran between f.Truncate(0) and
\* f.Seek(0, 0).
C29_NoStaleOffset == Quiescent => IsConcat(fData)

(***************************************************************************)
(* Properties of the bulk sink.                                            *)
(***************************************************************************)
\* C11: NewBulkOutput panics, and no sink is created, if and only if the
\* requested bulkSize is greater than 1000; for every bulkSize <= 1000 it
\* returns a sink with that bulkSize and no pending rows. Nothing can be
\* appended to a sink that was not created.
C11_CeilingOnConstruction ==
    [][/\ (sink = "none" /\ sink' # "none") =>
            IF requested > 1000
            THEN sink' = "panicked" /\ UNCHANGED <<bulkSize, logs, tasks>>
            ELSE sink' = "created" /\ bulkSize' = requested
                 /\ logs' = << >> /\ tasks' = << >>
       /\ (sink # "none") => sink' = sink
       /\ (sink # "created") => UNCHANGED <<logs, tasks, appended, nextMsg>>
      ]_vars

\* C11 witness: NewBulkOutput was called with 1001 and panicked
C11_Witness ==
    sink = "panicked" /\ requested = 1001 /\ logs = << >> /\ nextMsg = 0

\* a payload split on NL (strings.Split): the segments between the NLs
RECURSIVE Split(_)
Split(b) ==
    IF b = << >> THEN << << >> >>
    ELSE IF Head(b) = NL THEN << << >> >> \o Split(Tail(b))
    ELSE LET r == Split(Tail(b))
         IN  << << Head(b) >> \o Head(r) >> \o Tail(r)

\* the lines of a flushed payload: its segments but the last
Lines(b) == SubSeq(Split(b), 1, Len(Split(b)) - 1)

Range(f) == {f[i] : i \in DOMAIN f}

\* C6 (one caller, SpecBulkSeq), threshold >= 1: while fewer than threshold
\* records were accepted no flush was started; when the caller has returned
\* from the Append of the threshold-th accepted record exactly one flush was
\* started, and its payload split on NL gives threshold + 1 segments: the
\* rendered lines of the accepted records in append order, then an empty one.
C6_ThresholdFlush ==
    bulkSize >= 1 =>
        /\ Len(appended) < bulkSize => tasks = << >>
        /\ (Len(appended) = bulkSize /\ ap[1].pc = "idle") =>
              /\ Len(tasks) = 1
              /\ Len(Split(tasks[1].b)) = bulkSize + 1
              /\ Split(tasks[1].b) =
                    [i \in 1 .. bulkSize + 1 |->
                        IF i <= bulkSize THEN FormatRow(appended[i]) ELSE << >>]

\* C6 witness: threshold 2, two records accepted, one flush whose Write
\* returned, with both lines in order
C6_Witness ==
    /\ bulkSize = 2 /\ ap[1].pc = "idle" /\ appended = << 1, 2 >>
    /\ Len(tasks) = 1 /\ tasks[1].res = "ok"
    /\ tasks[1].b = << 1, NL, 2, NL >>

\* C7: a record the filter chain denied is dropped silently: it is not among
\* the pending rows, was never appended to them, is in no flushed payload,
\* and no flush or onError call is tied to its Append; every flushed payload
\* holds at least threshold lines, all of them lines of accepted records.
C7_DeniedNeverFlushed ==
    /\ \A m \in dropped :
          /\ m \notin Range(logs)
          /\ m \notin Range(appended)
          /\ onErrorCalls[m] = 0
          /\ \A t \in DOMAIN tasks :
                tasks[t].cb # m /\ FormatRow(m) \notin Range(Lines(tasks[t].b))
    /\ \A t \in DOMAIN tasks :
          /\ Len(Lines(tasks[t].b)) >= bulkSize
          /\ Range(Lines(tasks[t].b)) \subseteq {FormatRow(m) : m \in Range(appended)}

\* C7 witness: threshold 2, message 2 denied, and the flush started by the
\* third Append holds messages 1 and 3
C7_Witness ==
    /\ bulkSize = 2 /\ 2 \in dropped
    /\ \E t \in DOMAIN tasks :
          tasks[t].b = << 1, NL, 3, NL >> /\ tasks[t].st = "done"

\* C8: in every flushed payload the lines are in the order in which their
\* rows were appended to the pending rows (the order of the lock).
C8_BatchOrder ==
    \A t \in DOMAIN tasks :
        LET lines == Lines(tasks[t].b)
        IN  \A i, j \in DOMAIN lines :
                i < j => \E k, l \in DOMAIN appended :
                            /\ k < l
                            /\ lines[i] = FormatRow(appended[k])
                            /\ lines[j] = FormatRow(appended[l])

\* C8 witness: two concurrent Appends; the one that started second took the
\* lock first, and the flushed payload has its line first
C8_Witness ==
    /\ appended = << 2, 1 >>
    /\ \E t \in DOMAIN tasks : tasks[t].b = << 2, NL, 1, NL >>

\* C9: onError of the Append that started a flush has been called exactly once
\* when the Write of that flush returned an error, and not at all otherwise
\* (the Write returned nil, or has not returned); an Append starts at most one
\* flush, and a goroutine that has not ended can always take its next step.
C9_OnErrorOncePerFailedFlush ==
    /\ \A t \in DOMAIN tasks :
          /\ onErrorCalls[tasks[t].cb] = IF tasks[t].res = "err" THEN 1 ELSE 0
          /\ tasks[t].st # "done" => ENABLED TaskStep(t)
          /\ \A u \in DOMAIN tasks : tasks[u].cb = tasks[t].cb => u = t
    /\ \A m \in 1 .. MaxAppends :
          onErrorCalls[m] > 0 => \E t \in DOMAIN tasks : tasks[t].cb = m

\* C9 witness: a flush whose Write failed, with onError called once, and a
\* flush whose Write succeeded, with onError not called
C9_Witness ==
    \E t, u \in DOMAIN tasks :
        /\ tasks[t].st = "done" /\ tasks[t].res = "err"
        /\ onErrorCalls[tasks[t].cb] = 1
        /\ tasks[u].st = "done" /\ tasks[u].res = "ok"
        /\ onErrorCalls[tasks[u].cb] = 0

\* C10: Append never waits for the writer: a caller inside Append that cannot
\* take its next step is waiting for the lock, and the lock is held by
\* another caller; the holder of the lock can always take its next step,
\* whatever the goroutines are doing.
C10_AppendNeverWaitsForWriter ==
    \A a \in Appenders :
        ap[a].pc # "idle" =>
            \/ ENABLED AppendBody(a)
            \/ lock \in Appenders \ {a} /\ ap[a].pc \in {"append", "flush"}

\* C10 witness: the Write of a flush is in progress, and an Append that
\* started after that Write began has added its row and returned
C10_Witness ==
    \E t \in DOMAIN tasks :
        /\ tasks[t].st = "writing"
        /\ \E m \in Range(appended) :
              /\ m > tasks[t].at
              /\ \A a \in Appenders : ap[a].msg # m

\* C30 as stated: the number of pending rows never exceeds the threshold,
\* also with concurrent callers of Append.
C30_PendingCapped == Len(logs) <= bulkSize

\* the callers whose row is in the pending rows and whose flushIfNeeded has
\* not yet compared the length with the threshold
Unchecked == {a \in Appenders : ap[a].pc \in {"flush", "check"}}

\* C30 as amended: the pending rows exceed threshold - 1 (0 for a threshold
\* below 1) by at most the number of callers that have appended their row
\* and not yet run the check of flushIfNeeded; so with no Append in progress
\* fewer than threshold rows are pending, with one caller at most threshold
\* (one row for a threshold below 1), and with n concurrent callers at most
\* threshold + n - 1.
C30_PendingBoundedByCallers ==
    /\ Len(logs) <= Max(bulkSize - 1, 0) + Cardinality(Unchecked)
    /\ Len(logs) <= Max(bulkSize, 1) + Cardinality(Appenders) - 1

\* C30 witness: threshold 1 and two concurrent callers: both rows are
\* pending, neither caller has run its check yet
C30_Witness ==
    /\ bulkSize = 1 /\ Len(logs) = 2
    /\ \A a \in Appenders : ap[a].pc = "flush"

\* the step creates batch t or changes its buffer
Formats(t) ==
    /\ t \in DOMAIN tasks'
    /\ tasks'[t].b # << >>
    /\ t \notin DOMAIN tasks \/ tasks[t].b # tasks'[t].b

\* C31 as stated: the detached rows are formatted by the goroutine, not by
\* the caller of Append that holds the lock: no step of a caller creates or
\* changes the formatted buffer of a batch.
C31_TaskFormats ==
    [][\A t \in 1 .. MaxAppends : Formats(t) => ap' = ap]_vars

\* C31 as amended: when the threshold is reached the caller that holds the
\* lock formats all pending rows into the buffer, empties the pending rows
\* and starts the goroutine with that buffer, in one critical section; the
\* goroutine never changes the buffer and only makes its one Write call.
C31_CallerFormatsTaskWrites ==
    /\ [](\A t \in DOMAIN tasks : tasks[t].b = Render(tasks[t].rows))
    /\ [][\A t \in 1 .. MaxAppends :
             /\ Formats(t) =>
                   \E a \in Appenders :
                       /\ lock = a /\ ap[a].pc = "check" /\ ap'[a].pc = "ret"
                       /\ t = Len(tasks) + 1
                       /\ logs # << >> /\ logs' = << >>
                       /\ tasks'[t].rows = logs
                       /\ tasks'[t].b = Render(logs)
                       /\ tasks'[t].st = "started"
             /\ (t \in DOMAIN tasks /\ tasks'[t] # tasks[t]) =>
                   /\ tasks'[t].b = tasks[t].b /\ tasks'[t].rows = tasks[t].rows
                   /\ << tasks[t].st, tasks'[t].st >> \in
                         {<< "started", "writing" >>, << "writing", "done" >>}
         ]_vars

\* C31 witness: the caller has detached two rows and still holds the lock;
\* the buffer holds both lines and the goroutine has not run yet
C31_Witness ==
    \E a \in Appenders :
        /\ lock = a /\ ap[a].pc = "ret" /\ logs = << >>
        /\ tasks[Len(tasks)].st = "started"
        /\ Len(tasks[Len(tasks)].rows) = 2
        /\ tasks[Len(tasks)].b = Render(tasks[Len(tasks)].rows)

\* how often m occurs in a sequence of rows
Occurrences(rows, m) == Cardinality({i \in DOMAIN rows : rows[i] = m})

\* how often m occurs in the first n detached batches
RECURSIVE InBatches(_, _)
InBatches(m, n) ==
    IF n = 0 THEN 0
    ELSE Occurrences(tasks[n].rows, m) + InBatches(m, n - 1)

\* C32: no accepted record is lost or duplicated: every record that was
\* added to the pending rows is, in every state, either once among the
\* pending rows and in no detached batch, or in exactly one detached batch,
\* once; nothing else is pending or detached; and a detached batch goes to
\* the writer as one Write of its formatted rows: the goroutine can always
\* take its next step and goes from started to writing to done, never back.
C32_NoRecordLostOrDuplicated ==
    /\ [](/\ \A m \in 1 .. MaxAppends :
                Occurrences(logs, m) + InBatches(m, Len(tasks))
                   = IF m \in Range(appended) THEN 1 ELSE 0
          /\ \A m \in 1 .. MaxAppends : Occurrences(appended, m) <= 1
          /\ Range(appended) \cap dropped = {}
          /\ \A t \in DOMAIN tasks :
                /\ tasks[t].b = Render(tasks[t].rows)
                /\ tasks[t].st # "done" => ENABLED TaskStep(t))
    /\ [][\A t \in DOMAIN tasks :
             /\ t \in DOMAIN tasks'
             /\ tasks'[t].rows = tasks[t].rows
             /\ tasks'[t].st # tasks[t].st =>
                   << tasks[t].st, tasks'[t].st >> \in
                      {<< "started", "writing" >>, << "writing", "done" >>}
         ]_vars

\* C32 witness: threshold 1, two concurrent callers: both rows went into
\* one batch, which was written; the third record is pending
C32_Witness ==
    /\ bulkSize = 1 /\ Len(appended) = 3 /\ Len(logs) = 1
    /\ Len(tasks) = 1 /\ Len(tasks[1].rows) = 2 /\ tasks[1].st = "done"

\* C33 as stated: whatever the threshold, every batch handed to the writer
\* holds at least one row.
C33_BatchesNonEmpty == \A t \in DOMAIN tasks : tasks[t].rows # << >>

\* C34: the Writes of different batches are not ordered: a goroutine that
\* has not ended can take its next step (begin its Write, have it return)
\* while the goroutine of a batch detached earlier has not begun or not
\* ended its Write, so a later batch can be written before an earlier one.
C34_FlushesUnordered ==
    \A t, u \in DOMAIN tasks :
        (u < t /\ tasks[u].st # "done" /\ tasks[t].st # "done")
        => ENABLED TaskStep(t)

\* C34 witness: the Write of the second batch has returned and the Write of
\* the first batch has not
C34_Witness ==
    \E t, u \in DOMAIN tasks :
        /\ u < t
        /\ tasks[t].st = "done" /\ tasks[u].st # "done"
        /\ tasks[t].rows # << >> /\ tasks[u].rows # << >>

(***************************************************************************)
(* Properties of the test-harness sink.                                    *)
(***************************************************************************)
\* the record matches a registered pattern: its message or its field with
\* key "error" does
Matches(patterns, rec) ==
    \E i \in DOMAIN patterns :
        /\ patterns[i] # "nil"
        /\ MatchString(patterns[i], rec.msg) \/ MatchString(patterns[i], rec.errf)

\* every registered pattern is a regular expression
AllCompiled(patterns) == \A i \in DOMAIN patterns : patterns[i] # "nil"

\* caller c is at the end of an Append that found logging enabled
AppendDone(c) ==
    /\ tc[c].pc = "unlock" /\ tc[c].op = "Append"
    /\ ~toPre.loggingDisabled

\* the calls made on the backend since the holder of the lock acquired it
NewCalls == SubSeq(tbCalls, toPre.calls + 1, Len(tbCalls))

NewPrinted == SubSeq(printed, toPre.printed + 1, Len(printed))

FlagsKept ==
    /\ hasErrors = toPre.hasErrors
    /\ loggingDisabled = toPre.loggingDisabled
    /\ testTerminated = toPre.testTerminated

C13_AllowedGoesToLog ==
    \A c \in TOCallers :
        ( /\ AppendDone(c)
          /\ tc[c].rec.level # "error"
             \/ Matches(allowedErrorPatterns, tc[c].rec) )
        => /\ NewCalls = << << "Log", FormatLine(tc[c].rec) >> >>
           /\ NewPrinted = << >>
           /\ FlagsKept

\* C13 restricted to registered patterns that are all regular expressions:
\* the same statement, which then holds
C13_AllowedGoesToLogCompiled ==
    \A c \in TOCallers :
        ( /\ AppendDone(c)
          /\ AllCompiled(allowedErrorPatterns)
          /\ tc[c].rec.level # "error"
             \/ Matches(allowedErrorPatterns, tc[c].rec) )
        => /\ NewCalls = << << "Log", FormatLine(tc[c].rec) >> >>
           /\ NewPrinted = << >>
           /\ FlagsKept

\* C13 witness: an error record that matches a registered pattern by its
\* field with key "error" only has been forwarded to Log
C13_Witness ==
    \E c \in TOCallers :
        /\ AppendDone(c) /\ AllCompiled(allowedErrorPatterns)
        /\ tc[c].rec.level = "error" /\ tc[c].rec.msg = {"bar"}
        /\ NewCalls = << << "Log", FormatLine(tc[c].rec) >> >>

\* C14: once a disallowed error has been recorded (hasErrors, hence
\* loggingDisabled, was set when the call took the lock), an Append of any
\* record makes no call on the backend, prints nothing, changes no flag and
\* no pattern, and does not panic: it only takes and releases the lock.
C14_DisabledAppendIsNoOp ==
    \A c \in TOCallers :
        ( /\ toOwner = c /\ tc[c].op = "Append"
          /\ toPre.hasErrors \/ toPre.loggingDisabled )
        => /\ tc[c].pc \in {"check", "unlock"}
           /\ NewCalls = << >> /\ NewPrinted = << >>
           /\ FlagsKept /\ hasErrors /\ loggingDisabled
           /\ allowedErrorPatterns = toPre.patterns
           /\ ~tc[c].panicking

\* C14 witness: after a disallowed error, an Append of an info record is
\* about to return having done nothing
C14_Witness ==
    \E c \in TOCallers :
        /\ tc[c].pc = "unlock" /\ tc[c].op = "Append"
        /\ tc[c].rec.level = "info"
        /\ toPre.loggingDisabled /\ toPre.hasErrors
        /\ Len(tbCalls) = 2

\* the number of calls of a method on the backend
CountCalls(method) ==
    Cardinality({i \in DOMAIN tbCalls : tbCalls[i][1] = method})

C16_BackendPanicContained ==
    /\ \A c \in TOCallers :
          (tc[c].pc = "unlock" /\ tc[c].tbPanicked)
          => /\ ~tc[c].panicking
             /\ hasErrors /\ loggingDisabled
             /\ NewPrinted = << << "TEST_RUNNER_PANIC_ERROR",
                                   FormatLine(tc[c].rec) >> >>
    /\ \A c \in TOCallers :
          toOwner = c => /\ tc[c].pc \notin {"idle", "lock", "rlock"}
                         /\ ENABLED TOBody(c)
    /\ (\E i \in DOMAIN printed : printed[i][1] = "TEST_RUNNER_PANIC_ERROR")
          => hasErrors /\ loggingDisabled

\* C16 witness: the backend panicked in its first Error call; the Append
\* returned, the lock is free, and a later HasErrors returned true
C16_Witness ==
    /\ Len(tbCalls) = 1 /\ tbCalls[1][1] = "Error"
    /\ Len(printed) = 1 /\ printed[1][1] = "TEST_RUNNER_PANIC_ERROR"
    /\ toOwner = 0 /\ hasErrors /\ loggingDisabled
    /\ \E c, d \in TOCallers : toRet[c] = "returned" /\ toRet[d] = "true"

\* C17 (parallel callers appending disallowed errors, SpecTOErrors): no call
\* ends in a panic, hasErrors is set once any Append has returned, and every
\* call that started returns (no deadlock).
C17_ParallelErrorsTerminate ==
    /\ [](\A c \in TOCallers :
            /\ toRet[c] # "panicked"
            /\ toRet[c] = "returned" => hasErrors)
    /\ \A c \in TOCallers : (tc[c].pc # "idle") ~> (tc[c].pc = "idle")

\* C17 witness: every call was made, both callers' last call was an Append
\* that returned, and the backend saw one record only
C17_Witness ==
    /\ toCalls = MaxTOCalls /\ hasErrors
    /\ \A c \in TOCallers : tc[c].pc = "idle" /\ toRet[c] = "returned"
    /\ Len(tbCalls) = 2

\* C18: testTerminated, loggingDisabled and hasErrors are one-way: no step of
\* any call sets one of them back to false.
C18_FlagsOneWay ==
    [][/\ testTerminated => testTerminated'
       /\ loggingDisabled => loggingDisabled'
       /\ hasErrors => hasErrors']_vars

\* C18 witness: an AllowErrorsMatching taking effect after a disallowed
\* error and after TestTerminated, all three flags still set
C18_Witness ==
    \E c \in TOCallers :
        /\ tc[c].pc = "unlock" /\ tc[c].op = "AllowErrorsMatching"
        /\ toPre.hasErrors /\ toPre.loggingDisabled /\ toPre.testTerminated
        /\ hasErrors /\ loggingDisabled /\ testTerminated
        /\ Len(allowedErrorPatterns) = Len(toPre.patterns) + 1

\* the positions of a call between o.Lock() and o.Unlock()
ExclusiveSection ==
    {"check", "decide", "rec", "err1", "err2", "fail", "post", "recover",
     "allow", "term", "unlock"}

\* the positions of HasErrors between o.RLock() and o.RUnlock()
SharedSection == {"read", "runlock"}

\* the step makes a call of Error on the backend
ErrorCallStep ==
    /\ Len(tbCalls') = Len(tbCalls) + 1
    /\ tbCalls'[Len(tbCalls')][1] = "Error"

\* C35: once TestTerminated has set its flag, no call of the backend's Error
\* starts or is in progress: no caller is inside recordError's line-by-line
\* branch, and no step makes an Error call, under any interleaving of Append
\* with TestTerminated.
C35_NoErrorCallAfterTerminated ==
    /\ [](testTerminated =>
            \A c \in TOCallers : tc[c].pc \notin {"err1", "err2"})
    /\ [][testTerminated => ~ErrorCallStep]_vars

\* C35 witness: an Append of a disallowed error was waiting for the lock
\* while TestTerminated ran; TestTerminated returned, and the Append is
\* inside recordError on the Fail branch with no Error call made
C35_Witness ==
    \E c, d \in TOCallers :
        /\ c # d
        /\ toRet[d] = "returned" /\ testTerminated /\ tc[d].pc = "idle"
        /\ tc[c].pc = "fail" /\ tc[c].op = "Append"
        /\ CountCalls("Error") = 0

\* C36: the flags and the pattern list are read and changed only under the
\* lock: a caller is between Lock and Unlock exactly when it owns the lock,
\* which excludes every other owner and every reader; HasErrors reads under
\* the shared lock; and a step that changes a flag or the pattern list is a
\* step of the owner, so that during an Append the patterns and
\* testTerminated are those it found when it took the lock.
C36_StateOnlyUnderLock ==
    /\ [](/\ \A c \in TOCallers :
               /\ tc[c].pc \in ExclusiveSection <=> toOwner = c
               /\ tc[c].pc \in SharedSection <=> c \in toReaders
          /\ toOwner # 0 => toReaders = {}
          /\ \A c \in TOCallers :
               (toOwner = c /\ tc[c].op = "Append")
               => /\ allowedErrorPatterns = toPre.patterns
                  /\ testTerminated = toPre.testTerminated)
    /\ [][toData' # toData =>
            /\ toOwner # 0 /\ toOwner' = toOwner
            /\ tc'[toOwner] # tc[toOwner]
            /\ \A d \in TOCallers \ {toOwner} : tc'[d] = tc[d]]_vars

\* C36 witness: an Append is between its two Error calls while a
\* TestTerminated and nobody else waits for the lock
C36_Witness ==
    \E c, d \in TOCallers :
        /\ toOwner = c /\ tc[c].op = "Append" /\ tc[c].pc = "err2"
        /\ tc[d].pc = "lock" /\ tc[d].op = "TestTerminated"
        /\ ~testTerminated /\ toReaders = {}

\* the Error and Fail calls made on the backend, in order
Reports ==
    SelectSeq(tbCalls, LAMBDA call : call[1] \in {"Error", "Fail"})

\* C37: at most one disallowed error is reported per sink: the backend
\* receives nothing, or the Error calls of one record (its line, then
\* TEST_FAILED_ERROR), or one Fail call; never both kinds, never a second
\* record.
C37_OneErrorReported ==
    \/ Reports = << >>
    \/ Reports = << << "Fail", << >> >> >>
    \/ \E rec \in Records :
          \/ Reports = << << "Error", FormatLine(rec) >> >>
          \/ Reports = << << "Error", FormatLine(rec) >>,
                          << "Error", TEST_FAILED_ERROR >> >>

\* C37 witness: a disallowed error was reported by two Error calls, then the
\* test terminated and another Append of an error record returned: the
\* backend still has the two calls only
C37_Witness ==
    \E c \in TOCallers :
        /\ tc[c].pc = "unlock" /\ tc[c].op = "Append"
        /\ tc[c].rec.level = "error"
        /\ toPre.loggingDisabled /\ testTerminated
        /\ Len(Reports) = 2 /\ CountCalls("Fail") = 0

\* C38: whenever the lock is not held exclusively, hasErrors is true exactly
\* when loggingDisabled is set, also when the backend panicked while the
\* error was recorded.
C38_HasErrorsIffDisabled ==
    toOwner = 0 => (hasErrors <=> loggingDisabled)

\* C38 witness: the backend panicked in its Error call, the Append returned
\* and released the lock, and a HasErrors holding the shared lock reads both
\* flags set
C38_Witness ==
    \E c \in TOCallers :
        /\ toOwner = 0 /\ c \in toReaders /\ tc[c].pc = "read"
        /\ hasErrors /\ loggingDisabled
        /\ Len(printed) = 1 /\ printed[1][1] = "TEST_RUNNER_PANIC_ERROR"

(***************************************************************************)
(* Properties of the logger.                                               *)
(***************************************************************************)
\* the Append invocations of the primary call, and of the secondary ones
PrimaryAppends == SelectSeq(lgAppends, LAMBDA x : x.depth = 1)

SecondaryAppends == SelectSeq(lgAppends, LAMBDA x : x.depth > 1)

\* the sinks that fail in the primary call
FailingSinks == {i \in 1 .. lgOutputs : lgBehaviour[i][1] # "ok"}

\* C19: a panic of a sink's Append never reaches the caller of Log; it is
\* recovered and passed to onError as an error: the error or the string the
\* sink panicked with, "unknown error object type" for any other value; and
\* when the Log call has returned every sink, also those after a sink that
\* panicked, has received the record once, in the configured order.
C19_SinkPanicContained ==
    /\ lgRet # "panicked"
    /\ \A n \in DOMAIN lgOnErrors :
          LET x == lgOnErrors[n]
              o == lgBehaviour[x.sink][IF x.depth = 1 THEN 1 ELSE 2]
          IN  x.err = IF o = "panicError" THEN "boom"
                      ELSE IF o = "panicString" THEN "bang"
                      ELSE IF o = "panicOther" THEN "unknown error object type"
                      ELSE "write failed"
    /\ (lgRet = "returned" /\ LgAllows(lgFilters, PrimaryEvent)) =>
          /\ Len(PrimaryAppends) = lgOutputs
          /\ \A i \in 1 .. lgOutputs :
                PrimaryAppends[i].sink = i /\ PrimaryAppends[i].ev = PrimaryEvent
          /\ \A i \in FailingSinks :
                \E n \in DOMAIN lgOnErrors :
                    lgOnErrors[n].sink = i /\ lgOnErrors[n].depth = 1

\* C19 witness: the first of two sinks panicked with a value that is neither
\* an error nor a string; the second sink received the record and the call
\* returned
C19_Witness ==
    /\ lgRet = "returned" /\ lgOutputs = 2
    /\ lgBehaviour[1][1] = "panicOther" /\ lgBehaviour[2][1] = "ok"
    /\ Len(PrimaryAppends) = 2 /\ PrimaryAppends[2].sink = 2
    /\ lgOnErrors[1].err = "unknown error object type"

\* C20: a sink failure in the primary call logs one secondary event, a sink
\* failure while the secondary event is delivered logs nothing: the calls of
\* log nest at most twice, a Log call over k sinks makes at most k + k*k
\* Append invocations, and every Log call returns, even when every sink
\* fails on every Append.
C20_RecursionGuard ==
    /\ [](/\ Len(lgStack) <= 2
          /\ Len(lgAppends) <= lgOutputs + lgOutputs * lgOutputs
          /\ \A n \in DOMAIN lgAppends :
                /\ lgAppends[n].depth <= 2
                /\ lgAppends[n].depth = 2 <=> lgAppends[n].ev.kind = "secondary"
          /\ \A n \in DOMAIN lgOnErrors :
                lgOnErrors[n].logs <=> lgOnErrors[n].depth = 1
          /\ lgRet = "returned" =>
                /\ Cardinality({n \in DOMAIN lgOnErrors : lgOnErrors[n].logs})
                     = IF LgAllows(lgFilters, PrimaryEvent)
                       THEN Cardinality(FailingSinks) ELSE 0
                /\ Len(SecondaryAppends) <=
                     Cardinality(FailingSinks) * lgOutputs)
    /\ (lgStack # << >>) ~> (lgStack = << >>)

\* C20 witness: two sinks that fail on every Append: the call returned
\* after 2 + 2 * 2 Append invocations
C20_Witness ==
    /\ lgRet = "returned" /\ lgOutputs = 2
    /\ \A i \in 1 .. 2 : lgBehaviour[i][1] # "ok" /\ lgBehaviour[i][2] # "ok"
    /\ Len(lgAppends) = 6
    /\ Len(lgOnErrors) = 6

\* C21: a record reaches a sink only if every filter of the logger allows
\* it: while a filter denies the record of the Log call no Append is invoked
\* at all; the Append invocations of the call go to the sinks in the
\* configured order, each with the same record and the same flattened
\* fields, and when the call has returned every sink was invoked exactly
\* once. The secondary events go through the same filters: each failing sink
\* gives one more round over all the sinks if the filters allow the event,
\* none otherwise.
C21_FilteredDelivery ==
    /\ \A n \in DOMAIN lgAppends : LgAllows(lgFilters, lgAppends[n].ev)
    /\ ~LgAllows(lgFilters, PrimaryEvent) => lgAppends = << >>
    /\ \A n \in DOMAIN PrimaryAppends :
          PrimaryAppends[n] = [sink |-> n, ev |-> PrimaryEvent, depth |-> 1]
    /\ \A n \in DOMAIN SecondaryAppends :
          /\ SecondaryAppends[n].sink = ((n - 1) % lgOutputs) + 1
          /\ SecondaryAppends[n].ev.fields = enrichmentParams(<< >>)
    /\ (lgRet = "returned" /\ LgAllows(lgFilters, PrimaryEvent)) =>
          /\ Len(PrimaryAppends) = lgOutputs
          /\ Len(SecondaryAppends) =
                IF LgAllows(lgFilters, SecondaryEvent(""))
                THEN Cardinality(FailingSinks) * lgOutputs ELSE 0

\* C21 witness: two filters, both allowing the record of the call, the
\* second denying the secondary event; the first of two sinks reported an
\* error. Both sinks received the record, with the same fields, and nothing
\* else.
C21_Witness ==
    /\ lgRet = "returned" /\ lgOutputs = 2 /\ Len(lgFilters) = 2
    /\ lgBehaviour[1][1] = "onError"
    /\ Len(lgParams) = 4
    /\ Len(lgAppends) = 2
    /\ lgAppends[1].sink = 1 /\ lgAppends[2].sink = 2
    /\ lgAppends[1].ev.fields = lgAppends[2].ev.fields
    /\ Len(lgOnErrors) = 1

\* no field of the sequence is an aggregate
NoAggregate(fs) == \A i \in DOMAIN fs : ~IsNested(fs[i])

\* the sequence with every aggregate replaced, where it stands, by its
\* nested fields, until none is left
RECURSIVE InPlace(_)
InPlace(fs) ==
    IF NoAggregate(fs) THEN fs
    ELSE LET i == CHOOSE i \in DOMAIN fs :
                      IsNested(fs[i]) /\ \A j \in 1 .. i - 1 : ~IsNested(fs[j])
         IN  InPlace(SubSeq(fs, 1, i - 1) \o fs[i].Nested[1]
                     \o SubSeq(fs, i + 1, Len(fs)))

\* what the filters and the sinks should be given for an event
Expected(ev) ==
    InPlace(<< Function, Source >> \o lgTags
            \o (IF ev.kind = "primary" THEN lgParams ELSE << >>))

Keys(fs) == [i \in DOMAIN fs |-> fs[i].Key]

\* C22: neither the filters nor the sinks are ever given an aggregate field:
\* the fields of every record that is being filtered or was passed to an
\* Append are function, source, the inherited tags and the fields of the
\* call, in that order, with every aggregate, at every depth, replaced where
\* it stands by its nested fields.
C22_FieldsFlattened ==
    /\ \A n \in DOMAIN lgStack :
          /\ NoAggregate(lgStack[n].ev.fields)
          /\ lgStack[n].ev.fields = Expected(lgStack[n].ev)
    /\ \A n \in DOMAIN lgAppends :
          /\ NoAggregate(lgAppends[n].ev.fields)
          /\ lgAppends[n].ev.fields = Expected(lgAppends[n].ev)

\* C22 witness: a tag and a field of the call that are aggregates holding
\* aggregates, and an empty aggregate: the sink received the ten plain
\* fields in order
C22_Witness ==
    /\ lgAppends # << >>
    /\ \E n \in DOMAIN lgTags : IsNested(lgTags[n])
    /\ \E n \in DOMAIN lgParams : IsNested(lgParams[n])
    /\ Keys(lgAppends[1].ev.fields) =
          << "function", "source", "node", "vcid", "svc",
             "a", "b", "c", "d", "e" >>

\* C39: an aggregate whose nested payload is not a field sequence, at any
\* depth of the tags or of the fields of the call, ends the Log call with a
\* panic while the fields are flattened: no filter is evaluated (log never
\* comes to its filter loop), no sink's Append is invoked, onError is not
\* called and no secondary event is logged; a call whose aggregates all hold
\* field sequences never ends that way.
C39_BadAggregateAbortsBeforeFilters ==
    /\ flattenPanics(LgAllFields) =>
          /\ lgStack = << >>
          /\ lgAppends = << >> /\ lgOnErrors = << >>
          /\ lgRet \in {"none", "flattenPanic"}
    /\ ~flattenPanics(LgAllFields) => lgRet # "flattenPanic"

\* C39 witness: a logger with two sinks and filters that allow the record,
\* a tag that is an aggregate holding the aggregate without payload: the
\* Log call has panicked
C39_Witness ==
    /\ lgRet = "flattenPanic" /\ lgOutputs = 2 /\ lgFilters = << >>
    /\ \E n \in DOMAIN lgTags : IsNested(lgTags[n])
    /\ lgAppends = << >>

\* the failures of sinks in the primary call
PrimaryFailures == {n \in DOMAIN lgOnErrors : lgOnErrors[n].depth = 1}

\* the record the TestOutput is given for the failure
FailureRecord(n) == TORecord(SecondaryEvent(lgOnErrors[n].err))

WritesOf(m) == SelectSeq(boWrites, LAMBDA x : x.cb = m)

\* the Append call of message m has returned
BasicReturned(m) == m <= boNext /\ \A c \in BasicCallers : bo[c].msg # m

\* C23: an Append whose record the sink's filters deny writes nothing and
\* does not call onError; any other Append makes exactly one Write on the
\* writer, of the formatted line followed by "\n", and has called onError
\* exactly once when it returns if that Write returned an error, and not at
\* all if it returned nil; onError is never called before the failed Write
\* or for another reason; an Append that has started can always go on to
\* its return.
C23_StreamSinkReportsWriteError ==
    /\ \A m \in 1 .. boNext :
          /\ m \in boDenied =>
                WritesOf(m) = << >> /\ boOnError[m] = 0 /\ BasicReturned(m)
          /\ Len(WritesOf(m)) <= 1
          /\ \A n \in DOMAIN WritesOf(m) :
                WritesOf(m)[n].b = FormatRow(m) \o << NL >>
          /\ boOnError[m] <= 1
          /\ boOnError[m] = 1 =>
                WritesOf(m) # << >> /\ WritesOf(m)[1].res = "err"
          /\ (BasicReturned(m) /\ m \notin boDenied) =>
                /\ Len(WritesOf(m)) = 1
                /\ boOnError[m] = 1 <=> WritesOf(m)[1].res = "err"
    /\ \A m \in boNext + 1 .. MaxBasicAppends : boOnError[m] = 0
    /\ \A c \in BasicCallers :
          bo[c].pc # "idle" => ENABLED BasicAppendBody(c)

\* C23 witness: three Appends have returned: one denied, one whose Write
\* failed and was reported once, one whose Write succeeded
C23_Witness ==
    /\ boNext = 3 /\ \A m \in 1 .. 3 : BasicReturned(m)
    /\ boDenied = {2}
    /\ Len(boWrites) = 2
    /\ \E m \in {1, 3} : boOnError[m] = 1 /\ WritesOf(m)[1].res = "err"
    /\ \E m \in {1, 3} : boOnError[m] = 0 /\ WritesOf(m)[1].res = "ok"

TypeOK ==
    /\ interval \in 0 .. MaxInterval
    /\ lastTruncated \in 0 .. MaxTime
    /\ mu \in {0} \cup AllWriters
    /\ fOff \in Nat
    /\ clock \in 0 .. MaxTime
    /\ calls \in 0 .. MaxCalls

====
